---- MODULE Spec2Model ----
(***************************************************************************)
(* A model of the SDMX key codec and the indicator lookup of data-tools:   *)
(*   sdmx_api.Filter             (dimension dictionaries <-> dotted keys)  *)
(*   make_uis_indicator_dict     (full key -> short key and back)          *)
(*   uis.Indicator               (exact and fuzzy lookup in the catalogue) *)
(*                                                                         *)
(* Python strings are modelled as sequences of one-character strings, so   *)
(* that lower(), upper(), split(), join(), replace() and the substring     *)
(* test "a in b" are computed character by character as Python does.       *)
(* A Python dict is a function whose DOMAIN is its set of keys.            *)
(***************************************************************************)
EXTENDS Integers, Sequences, FiniteSets, TLC

VARIABLES
    all_dims,   \* Filter.all_dims: the ordered dimension list of the Filter
    keys,       \* Indicator.keys: the catalogue, a sequence of records
    combos,     \* make_uis_indicator_dict: combos, the list of full combos
    possible,   \* make_uis_indicator_dict: all_dims, dimension -> possible values
    pipe,       \* make_uis_indicator_dict: the script's derived variables
    obj,        \* the __dict__ of an object of a class with a cached_property
    call,       \* the operation last applied, with its arguments
    ret         \* what that operation returned (or the error it raised)

vars == <<all_dims, keys, combos, possible, pipe, obj, call, ret>>

\* obj before any object of such a class is made
NoObject == <<>>

(***************************************************************************)
(* Bounds of the model.                                                    *)
(***************************************************************************)
MaxDims == 3        \* longest generated Filter dimension list
MaxCombos == 2      \* longest list of combos the shortening script is run on

(***************************************************************************)
(* Characters and strings.                                                 *)
(***************************************************************************)
LowerLetters == <<"a","b","c","d","e","f","g","h","i","j","k","l","m",
                  "n","o","p","q","r","s","t","u","v","w","x","y","z">>
UpperLetters == <<"A","B","C","D","E","F","G","H","I","J","K","L","M",
                  "N","O","P","Q","R","S","T","U","V","W","X","Y","Z">>

Range(s) == {s[i] : i \in DOMAIN s}

\* str.lower() and str.upper() on one character, as tables over the letters
LowerTable == [c \in Range(UpperLetters) |->
                  LowerLetters[CHOOSE i \in 1..26 : UpperLetters[i] = c]]
UpperTable == [c \in Range(LowerLetters) |->
                  UpperLetters[CHOOSE i \in 1..26 : LowerLetters[i] = c]]
LowerChar(c) == IF c \in DOMAIN LowerTable THEN LowerTable[c] ELSE c
UpperChar(c) == IF c \in DOMAIN UpperTable THEN UpperTable[c] ELSE c

Lower(s) == [i \in 1..Len(s) |-> LowerChar(s[i])]
Upper(s) == [i \in 1..Len(s) |-> UpperChar(s[i])]

\* s[i:j] with Python's 0-based half-open slice written 1-based inclusive
Slice(s, i, j) == IF j < i THEN <<>> ELSE SubSeq(s, i, j)

\* whether sub occurs in s at 1-based position p
OccursAt(s, sub, p) ==
    /\ p >= 1
    /\ p + Len(sub) - 1 <= Len(s)
    /\ \A k \in 1..Len(sub) : s[p + k - 1] = sub[k]

\* Python's "sub in s" for strings
Contains(s, sub) == \E p \in 1..(Len(s) + 1) : OccursAt(s, sub, p)

\* str.split(sep) for a non-empty separator: empty parts are kept; at is
\* the set of positions where sep occurs, p where the current part starts
RECURSIVE SplitFrom(_, _, _, _)
SplitFrom(s, sep, p, at) ==
    LET found == {q \in at : q >= p}
        n == CHOOSE q \in found : \A r \in found : q <= r
    IN  IF found = {} THEN <<Slice(s, p, Len(s))>>
        ELSE <<Slice(s, p, n - 1)>> \o SplitFrom(s, sep, n + Len(sep), found \ {n})
Split(s, sep) == SplitFrom(s, sep, 1, {q \in 1..Len(s) : OccursAt(s, sep, q)})

\* sep.join(parts)
RECURSIVE Join(_, _)
Join(parts, sep) ==
    IF Len(parts) = 0 THEN <<>>
    ELSE IF Len(parts) = 1 THEN parts[1]
    ELSE parts[1] \o sep \o Join(Tail(parts), sep)

\* str.replace(old, new) for a non-empty old: leftmost, non-overlapping
RECURSIVE ReplaceFrom(_, _, _, _)
ReplaceFrom(s, old, new, p) ==
    IF p > Len(s) THEN <<>>
    ELSE IF OccursAt(s, old, p)
         THEN new \o ReplaceFrom(s, old, new, p + Len(old))
         ELSE <<s[p]>> \o ReplaceFrom(s, old, new, p + 1)
Replace(s, old, new) == ReplaceFrom(s, old, new, 1)

\* "s" * n
RECURSIVE Repeat(_, _)
Repeat(s, n) == IF n <= 0 THEN <<>> ELSE s \o Repeat(s, n - 1)

\* the sequences of exactly n pairwise different elements of S
RECURSIVE SeqsNoRepLen(_, _)
SeqsNoRepLen(S, n) ==
    IF n = 0 THEN {<<>>}
    ELSE UNION {{Append(q, x) : x \in S \ Range(q)} : q \in SeqsNoRepLen(S, n - 1)}
SeqsNoRep(S, lo, hi) == UNION {SeqsNoRepLen(S, n) : n \in lo..hi}

DOT == <<".">>
HYPHEN == <<"-">>
SPACE == <<" ">>
PLUS == <<"+">>

(***************************************************************************)
(* Dimension names and values that occur in the model's inputs.            *)
(***************************************************************************)
STAT_UNIT == <<"S","T","A","T","_","U","N","I","T">>
UNIT_MEASURE == <<"U","N","I","T","_","M","E","A","S","U","R","E">>
EDU_LEVEL == <<"E","D","U","_","L","E","V","E","L">>
EDU_CAT == <<"E","D","U","_","C","A","T">>
SEX == <<"S","E","X">>
AGE == <<"A","G","E">>
GRADE == <<"G","R","A","D","E">>
SECTOR_EDU == <<"S","E","C","T","O","R","_","E","D","U">>
EDU_ATTAIN == <<"E","D","U","_","A","T","T","A","I","N">>
WEALTH_QUINTILE == <<"W","E","A","L","T","H","_","Q","U","I","N","T","I","L","E">>
LOCATION == <<"L","O","C","A","T","I","O","N">>
EDU_TYPE == <<"E","D","U","_","T","Y","P","E">>
EDU_FIELD == <<"E","D","U","_","F","I","E","L","D">>
SUBJECT == <<"S","U","B","J","E","C","T">>
INFRASTR == <<"I","N","F","R","A","S","T","R">>
SE_BKGRD == <<"S","E","_","B","K","G","R","D">>
TEACH_EXPERIENCE == <<"T","E","A","C","H","_","E","X","P","E","R","I","E","N","C","E">>
CONTRACT_TYPE == <<"C","O","N","T","R","A","C","T","_","T","Y","P","E">>
COUNTRY_ORIGIN == <<"C","O","U","N","T","R","Y","_","O","R","I","G","I","N">>
REGION_DEST == <<"R","E","G","I","O","N","_","D","E","S","T">>
IMM_STATUS == <<"I","M","M","_","S","T","A","T","U","S">>
REF_AREA == <<"R","E","F","_","A","R","E","A">>
TIME_PERIOD == <<"T","I","M","E","_","P","E","R","I","O","D">>

(***************************************************************************)
(* Values of a value map: None, a scalar string, or a list of strings.     *)
(***************************************************************************)
None == [tag |-> "none"]
Str(s) == [tag |-> "str", v |-> s]
List(l) == [tag |-> "list", v |-> l]

\* dict.get(k): None when the key is absent
Get(d, k) == IF k \in DOMAIN d THEN d[k] ELSE None

(***************************************************************************)
(* sdmx_api.Filter                                                         *)
(***************************************************************************)
non_ind == <<REF_AREA, TIME_PERIOD>>

\* Filter.__init__: self.ind_dims
ind_dims_of(dimensions) == SelectSeq(dimensions, LAMBDA x : x \notin Range(non_ind))

\* Filter.dims(ind)
dims(dimensions, ind) == IF ind THEN ind_dims_of(dimensions) ELSE dimensions

\* Filter.is_dim(dim, ind)
is_dim(dimensions, dim, ind) == Upper(dim) \in Range(dims(dimensions, ind))

\* Filter.extract_dims(d, ind): {k.upper(): v for k, v in d.items() if is_dim(k, ind)}
extract_dims(dimensions, d, ind) ==
    LET kept == {k \in DOMAIN d : is_dim(dimensions, k, ind)}
    IN  [K \in {Upper(k) : k \in kept} |-> d[CHOOSE k \in kept : Upper(k) = K]]

\* value_to_filter_string(v)
value_to_filter_string(v) ==
    IF v.tag = "none" THEN <<>>
    ELSE IF v.tag = "list" THEN Join(v.v, PLUS)
    ELSE v.v

\* "if d": a dict is falsy when it is None or empty; both are the empty map here
Truthy(d) == DOMAIN d # {}

\* Filter.dict_to_key(d, ind)
dict_to_key_dot_per_dim(dimensions, d, ind) ==
    LET ds == dims(dimensions, ind)
    IN  IF Truthy(d)
        THEN Join([i \in 1..Len(ds) |-> value_to_filter_string(Get(d, ds[i]))], DOT)
        ELSE Repeat(DOT, Len(ds))
dict_to_key(dimensions, d, ind) ==
    LET ds == dims(dimensions, ind)
    IN  IF Truthy(d)
        THEN Join([i \in 1..Len(ds) |-> value_to_filter_string(Get(d, ds[i]))], DOT)
        ELSE Repeat(DOT, Len(ds) - 1)

\* dict(zip(names, values)): pairs up to the shorter length, later pairs win
ZipDict(names, values) ==
    LET n == IF Len(names) < Len(values) THEN Len(names) ELSE Len(values)
    IN  [k \in {names[i] : i \in 1..n} |->
            values[CHOOSE i \in 1..n : names[i] = k /\ \A j \in (i+1)..n : names[j] # k]]

\* Filter.key_to_dict(key, ind): zips self.all_dims, whatever ind is, and
\* extracts the indicator dimensions (extract_dims is called with its default)
key_to_dict(dimensions, key, ind) ==
    extract_dims(dimensions, ZipDict(dimensions, Split(key, DOT)), TRUE)

(***************************************************************************)
(* The Filter under test: inputs.                                          *)
(***************************************************************************)
F == <<"F">>
M == <<"M">>
NERA == <<"N","E","R","A">>
L1 == <<"L","1">>
L2 == <<"L","2">>
T_ == <<"_","T">>
sex == <<"s","e","x">>

\* uis.UIS_DIMENSIONS
UIS_DIMENSIONS == <<STAT_UNIT, UNIT_MEASURE, EDU_LEVEL, EDU_CAT, SEX, AGE, GRADE,
                    SECTOR_EDU, EDU_ATTAIN, WEALTH_QUINTILE, LOCATION, EDU_TYPE,
                    EDU_FIELD, SUBJECT, INFRASTR, SE_BKGRD, TEACH_EXPERIENCE,
                    CONTRACT_TYPE, COUNTRY_ORIGIN, REGION_DEST, IMM_STATUS, REF_AREA>>

ExampleDims == <<STAT_UNIT, SEX, EDU_LEVEL, REF_AREA, TIME_PERIOD>>

\* the dimension lists a Filter is constructed with
FilterDimLists ==
    SeqsNoRep({STAT_UNIT, SEX, REF_AREA, TIME_PERIOD}, 1, MaxDims)
        \cup {ExampleDims, UIS_DIMENSIONS}

\* all maps from a subset of the keys to the values
PartialMaps(Keys, Vals) == UNION {[D -> Vals] : D \in SUBSET Keys}

ExampleMap ==
    [k \in {STAT_UNIT, SEX, EDU_LEVEL} |->
        IF k = STAT_UNIT THEN Str(NERA) ELSE IF k = SEX THEN Str(T_) ELSE Str(L1)]

ValueMaps ==
    PartialMaps({STAT_UNIT, SEX, sex, REF_AREA}, {None, Str(F), Str(NERA), List(<<F, M>>)})
        \cup {ExampleMap}

Idle == [pc |-> "off"]

InitFilter ==
    /\ all_dims \in FilterDimLists
    /\ keys = <<>>
    /\ combos = <<>>
    /\ possible = <<>>
    /\ pipe = Idle
    /\ call = [op |-> "init"]
    /\ ret = None
    /\ obj = NoObject

\* a caller builds a key from a value map
DictToKey ==
    /\ call.op = "init"
    /\ \E d \in ValueMaps, ind \in BOOLEAN :
          /\ call' = [op |-> "dict_to_key", d |-> d, ind |-> ind]
          /\ ret' = dict_to_key(all_dims, d, ind)
    /\ UNCHANGED <<all_dims, keys, combos, possible, pipe, obj>>

\* the key just built is parsed back
KeyToDict ==
    /\ call.op = "dict_to_key"
    /\ \E ind \in BOOLEAN :
          /\ call' = [op |-> "key_to_dict", key |-> ret, ind |-> ind,
                      d |-> call.d, d_ind |-> call.ind]
          /\ ret' = key_to_dict(all_dims, ret, ind)
    /\ UNCHANGED <<all_dims, keys, combos, possible, pipe, obj>>

NextFilter == DictToKey \/ KeyToDict

SpecFilter == InitFilter /\ [][NextFilter]_vars

\* the value map gives every indicator dimension a non-empty string
GivesAllIndDims(dimensions, d) ==
    \A k \in Range(ind_dims_of(dimensions)) :
        k \in DOMAIN d /\ d[k].tag = "str" /\ d[k].v # <<>>

\* the value map restricted to the indicator dimensions, as plain strings
RestrictedToInd(dimensions, d) ==
    [k \in Range(ind_dims_of(dimensions)) \cap DOMAIN d |-> d[k].v]

\* C1: Filter.key_to_dict(Filter.dict_to_key(valueMap)) equals valueMap
\* restricted to the indicator dimensions, for every Filter and every value
\* map that gives each indicator dimension a non-empty string.
C1_RoundTrip ==
    (call.op = "key_to_dict" /\ call.d_ind /\ call.ind
        /\ GivesAllIndDims(all_dims, call.d))
    => ret = RestrictedToInd(all_dims, call.d)

(***************************************************************************)
(* make_uis_indicator_dict: the shortening rules and the two directions.   *)
(***************************************************************************)
\* uis_api_wrapper.dimension_ids, the list make_uis_indicator_dict reads
dimension_ids == <<STAT_UNIT, UNIT_MEASURE, EDU_LEVEL, EDU_CAT, SEX, AGE, GRADE,
                   SECTOR_EDU, EDU_ATTAIN, WEALTH_QUINTILE, LOCATION, EDU_TYPE,
                   EDU_FIELD, SUBJECT, INFRASTR, SE_BKGRD, TEACH_EXPERIENCE,
                   CONTRACT_TYPE, COUNTRY_ORIGIN, REGION_DEST, IMM_STATUS,
                   REF_AREA, TIME_PERIOD>>

Z_ == <<"_","Z">>
X_ == <<"_","X">>
U_ == <<"_","U">>
PT == <<"P","T">>
INST_T == <<"I","N","S","T","_","T">>
W00 == <<"W","0","0">>
SCH_AGE_GROUP == <<"S","C","H","_","A","G","E","_","G","R","O","U","P">>
L == <<"L">>
UNDERSCORE == <<"_">>

\* the rule sets written out in abbreviate_combo, short_key_to_combo and
\* value_matches_dim
remove == <<T_, Z_, INST_T, W00, X_, PT, SCH_AGE_GROUP>>
dont_remove == {<<EDU_FIELD, X_>>, <<COUNTRY_ORIGIN, PT>>}
mangle == <<U_>>
replace == [k \in {EDU_LEVEL} |-> <<L, <<>> >>]

\* "{k}_{v}".format(k=k, v=v)
Mangled(k, v) == k \o UNDERSCORE \o v

\* abbreviate_combo: the rewriting of one value v of dimension k
abbreviate_value_without_replace(k, v) ==
    IF v \in Range(remove) /\ <<k, v>> \notin dont_remove THEN <<>>
    ELSE IF v \in Range(mangle) THEN Mangled(k, v)
    ELSE v
\* the same rules with the replace rule applied to a mangled value as well
abbreviate_value_mangle_then_replace(k, v) ==
    IF v \in Range(remove) /\ <<k, v>> \notin dont_remove THEN <<>>
    ELSE LET m == IF v \in Range(mangle) THEN Mangled(k, v) ELSE v
         IN  IF k \in DOMAIN replace THEN Replace(m, replace[k][1], replace[k][2])
             ELSE m
abbreviate_value(k, v) ==
    IF v \in Range(remove) /\ <<k, v>> \notin dont_remove THEN <<>>
    ELSE IF v \in Range(mangle) THEN Mangled(k, v)
    ELSE IF k \in DOMAIN replace THEN Replace(v, replace[k][1], replace[k][2])
    ELSE v

\* abbreviate_combo(combo): every item of the combo, STAT_UNIT included
abbreviate_combo(combo) == [k \in DOMAIN combo |-> abbreviate_value(k, combo[k])]

\* dict_to_sdmx_key(d): the key of the indicator dimensions, "" where the
\* dict has no value (unesco_data.dict_to_dimension_string, called without
\* ref_area and time_period; the values of a combo are strings)
dict_to_sdmx_key(d) ==
    LET ds == SelectSeq(dimension_ids, LAMBDA x : x \notin {REF_AREA, TIME_PERIOD})
    IN  Join([i \in 1..Len(ds) |->
                IF ds[i] \in DOMAIN d THEN d[ds[i]]
                ELSE IF Lower(ds[i]) \in DOMAIN d THEN d[Lower(ds[i])]
                ELSE <<>>], DOT)

\* shorten_sdmx_key(key)
shorten_sdmx_key(key) ==
    LET parts == Split(key, DOT)
        kept == SelectSeq(parts, LAMBDA part : part # <<>>)
    IN  Join([i \in 1..Len(kept) |-> Lower(kept[i])], HYPHEN)

\* drop_common_dimensions: the dimensions it looks at
use_dimensions(cs) ==
    SelectSeq(dimension_ids,
              LAMBDA x : x # STAT_UNIT /\ \E i \in 1..Len(cs) : x \in DOMAIN cs[i])

\* drop_common_dimensions: the list it returns, (stat_unit, dimension, value)
\* for every dimension with a single value over the combos of a stat unit
drop_list(cs) ==
    LET stat_units == {cs[i][STAT_UNIT] : i \in 1..Len(cs)}
        values(s, x) == {cs[i][x] : i \in {j \in 1..Len(cs) : cs[j][STAT_UNIT] = s}}
    IN  {<<s, x, CHOOSE v \in values(s, x) : TRUE>> :
            <<s, x>> \in {p \in stat_units \X Range(use_dimensions(cs)) :
                            Cardinality(values(p[1], p[2])) = 1}}

\* drop_common_dimensions: the combos after it worked on them in place
drop_common_dimensions(cs) ==
    LET drop == drop_list(cs)
    IN  [i \in 1..Len(cs) |->
            [k \in DOMAIN cs[i] |->
                IF <<cs[i][STAT_UNIT], k, cs[i][k]>> \in drop THEN <<>> ELSE cs[i][k]]]

\* a value_matches_dim result used as a condition: None and "" are falsy
IsTrue(v) == v.tag = "str" /\ v.v # <<>>

\* value_matches_dim(value, dim_id, possible): the possible value the token
\* stands for, or None
value_matches_dim(value, dim_id, poss) ==
    IF value \in Range(poss) THEN Str(value)
    ELSE IF \E mv \in Range(mangle) \cap Range(poss) : value = Mangled(dim_id, mv)
    THEN Str(CHOOSE mv \in Range(mangle) \cap Range(poss) : value = Mangled(dim_id, mv))
    ELSE IF dim_id \in DOMAIN replace
            /\ \E i \in 1..Len(poss) :
                  value = Replace(poss[i], replace[dim_id][1], replace[dim_id][2])
    THEN Str(poss[CHOOSE i \in 1..Len(poss) :
                /\ value = Replace(poss[i], replace[dim_id][1], replace[dim_id][2])
                /\ \A j \in 1..(i - 1) :
                      value # Replace(poss[j], replace[dim_id][1], replace[dim_id][2])])
    ELSE None

\* list.index(x), 1-based
IndexOf(seq, x) == CHOOSE i \in 1..Len(seq) : seq[i] = x /\ \A j \in 1..(i - 1) : seq[j] # x

\* short_key_to_combo: dims
unshorten_dims == SelectSeq(dimension_ids, LAMBDA x : x \notin {STAT_UNIT, REF_AREA, TIME_PERIOD})

\* short_key_to_combo: dropped_dict, for one stat unit
dropped_dict(stat_unit, dropped_dims) ==
    [x \in {t[2] : t \in {u \in dropped_dims : u[1] = stat_unit}} |->
        (CHOOSE t \in dropped_dims : t[1] = stat_unit /\ t[2] = x)[3]]

\* short_key_to_combo.ordered(s)
ordered_or_equal(s) ==
    \A i \in 1..(Len(s) - 1) : IndexOf(unshorten_dims, s[i]) <= IndexOf(unshorten_dims, s[i + 1])
ordered(s) ==
    \A i \in 1..(Len(s) - 1) : IndexOf(unshorten_dims, s[i]) < IndexOf(unshorten_dims, s[i + 1])

\* a list whose order Python's set leaves open, kept as the set of its members
AnyOf(S) == [tag |-> "set", v |-> S]

\* short_key_to_combo.unspecified_value(d)
unspecified_value_any_possible(poss, x) == AnyOf(Range(poss[x]))
unspecified_value(poss, x) ==
    AnyOf({v \in Range(remove) : <<x, v>> \notin dont_remove} \cap Range(poss[x]))

\* short_key_to_combo: possible_dims_for_each_value, built token by token
\* while the dimensions with a single candidate are appended to fixed
RECURSIVE possible_dims_from(_, _, _, _, _)
possible_dims_from(spec_values, i, fixed, poss, dd) ==
    IF i > Len(spec_values) THEN <<>>
    ELSE LET possible_dims ==
                SelectSeq(unshorten_dims,
                          LAMBDA x : /\ IsTrue(value_matches_dim(spec_values[i], x, poss[x]))
                                     /\ x \notin fixed
                                     /\ x \notin DOMAIN dd)
         IN  <<possible_dims>> \o
             possible_dims_from(spec_values, i + 1,
                                IF Len(possible_dims) = 1
                                THEN fixed \cup {possible_dims[1]} ELSE fixed,
                                poss, dd)

\* itertools.product(*lists), in its order
RECURSIVE PrependEach(_, _)
PrependEach(xs, rest) ==
    IF Len(xs) = 0 THEN <<>>
    ELSE [i \in 1..Len(rest) |-> <<xs[1]>> \o rest[i]] \o PrependEach(Tail(xs), rest)
RECURSIVE Product(_)
Product(lists) ==
    IF Len(lists) = 0 THEN << <<>> >>
    ELSE PrependEach(lists[1], Product(Tail(lists)))

\* short_key_to_combo: the dict built for one ordered dimension combination
candidate(dim_combination, spec_values, stat_unit, poss) ==
    LET dc == ZipDict(dim_combination, spec_values)
    IN  [x \in {STAT_UNIT} \cup Range(unshorten_dims) |->
            IF x = STAT_UNIT THEN Str(stat_unit)
            ELSE IF x \in DOMAIN dc THEN value_matches_dim(dc[x], x, poss[x])
            ELSE unspecified_value(poss, x)]

\* short_key_to_combo(key, possible, dropped_dims)
short_key_to_combo(key, poss, dropped_dims) ==
    LET parts == Split(key, HYPHEN)
        upper == [i \in 1..Len(parts) |-> Upper(parts[i])]
        stat_unit == Head(upper)
        spec_values == Tail(upper)
        dd == dropped_dict(stat_unit, dropped_dims)
        pdfev == possible_dims_from(spec_values, 1, {}, poss, dd)
        kept == SelectSeq(Product(pdfev), ordered)
    IN  IF stat_unit \notin Range(poss[STAT_UNIT]) THEN <<>>
        ELSE [i \in 1..Len(kept) |-> candidate(kept[i], spec_values, stat_unit, poss)]

(***************************************************************************)
(* The script of make_uis_indicator_dict, run on a list of combos.         *)
(***************************************************************************)
GPI == <<"G","P","I">>
OFST == <<"O","F","S","T">>

\* the possible values of every dimension (the script's all_dims)
PossibleTable ==
    [x \in Range(dimension_ids) |->
        IF x = STAT_UNIT THEN <<NERA, OFST, PT>>
        ELSE IF x = UNIT_MEASURE THEN <<PT, GPI>>
        ELSE IF x = EDU_LEVEL THEN <<T_, L1, L2>>
        ELSE IF x = SEX THEN <<T_, Z_, F, M>>
        ELSE IF x = AGE THEN <<T_, SCH_AGE_GROUP>>
        ELSE IF x = GRADE THEN <<T_, U_>>
        ELSE IF x = SECTOR_EDU THEN <<INST_T>>
        ELSE IF x \in {COUNTRY_ORIGIN, REGION_DEST} THEN <<W00>>
        ELSE IF x \in {REF_AREA, TIME_PERIOD} THEN <<>>
        ELSE <<T_, Z_>>]

\* a full combo: NERA.PT.L1._T._T.SCH_AGE_GROUP._T.INST_T._Z._Z._T._T._T._Z...
\* with four of its values set
Combo(su, lev, sx, gr) ==
    [x \in Range(dimension_ids) \ {REF_AREA, TIME_PERIOD} |->
        IF x = STAT_UNIT THEN su
        ELSE IF x = UNIT_MEASURE THEN PT
        ELSE IF x = EDU_LEVEL THEN lev
        ELSE IF x = SEX THEN sx
        ELSE IF x = GRADE THEN gr
        ELSE IF x = AGE THEN SCH_AGE_GROUP
        ELSE IF x = SECTOR_EDU THEN INST_T
        ELSE IF x \in {COUNTRY_ORIGIN, REGION_DEST} THEN W00
        ELSE IF x \in {EDU_CAT, LOCATION, EDU_TYPE, EDU_FIELD} THEN T_
        ELSE Z_]

ComboPoolOf(StatUnits) ==
    {Combo(su, lev, sx, gr) : su \in StatUnits, lev \in {L1, T_},
                              sx \in {T_, Z_, F}, gr \in {T_, U_}}

\* combos of the statistics of the UIS data flow
ComboPool == ComboPoolOf({NERA, OFST})

\* combos whose STAT_UNIT code may be any code of the data flow's code lists
ComboPoolAny == ComboPoolOf({NERA, PT})

NoPipe ==
    [pc |-> "loaded", combos_copy |-> <<>>, dropped |-> {}, abb_combos |-> <<>>,
     full_sdmx_keys |-> <<>>, abb_sdmx_keys |-> <<>>, short_keys |-> <<>>, d |-> <<>>]

\* combos = get_written_combos(...), all_dims = cache.load('all-dimensions')
InitShorten ==
    /\ combos \in SeqsNoRep(ComboPool, 1, MaxCombos)
    /\ possible = PossibleTable
    /\ pipe = NoPipe
    /\ all_dims = <<>>
    /\ keys = <<>>
    /\ call = [op |-> "init"]
    /\ ret = None
    /\ obj = NoObject

\* the same script on combos with any STAT_UNIT code
InitShortenAny ==
    /\ combos \in SeqsNoRep(ComboPoolAny, 1, MaxCombos)
    /\ possible = PossibleTable
    /\ pipe = NoPipe
    /\ all_dims = <<>>
    /\ keys = <<>>
    /\ call = [op |-> "init"]
    /\ ret = None
    /\ obj = NoObject

\* combos_copy = [c.copy() ...]; dropped = drop_common_dimensions(combos_copy)
DropCommon ==
    /\ pipe.pc = "loaded"
    /\ pipe' = [pipe EXCEPT !.pc = "dropped",
                            !.combos_copy = drop_common_dimensions(combos),
                            !.dropped = drop_list(combos)]
    /\ UNCHANGED <<all_dims, keys, combos, possible, obj, call, ret>>

\* abb_combos = [abbreviate_combo(combo) for combo in combos_copy]
Abbreviate ==
    /\ pipe.pc = "dropped"
    /\ pipe' = [pipe EXCEPT !.pc = "abbreviated",
                            !.abb_combos = [i \in 1..Len(pipe.combos_copy) |->
                                               abbreviate_combo(pipe.combos_copy[i])]]
    /\ UNCHANGED <<all_dims, keys, combos, possible, obj, call, ret>>

\* full_sdmx_keys, abb_sdmx_keys and short_keys
MakeKeys ==
    /\ pipe.pc = "abbreviated"
    /\ LET abb == [i \in 1..Len(combos) |-> dict_to_sdmx_key(pipe.abb_combos[i])]
       IN  pipe' = [pipe EXCEPT !.pc = "keyed",
                                !.full_sdmx_keys = [i \in 1..Len(combos) |->
                                                       dict_to_sdmx_key(combos[i])],
                                !.abb_sdmx_keys = abb,
                                !.short_keys = [i \in 1..Len(combos) |->
                                                   shorten_sdmx_key(abb[i])]]
    /\ UNCHANGED <<all_dims, keys, combos, possible, obj, call, ret>>

\* d[k] = short_key_to_combo(k, all_dims, dropped) for every short key
Unshorten ==
    /\ pipe.pc = "keyed"
    /\ pipe' = [pipe EXCEPT !.pc = "unshortened",
                            !.d = [i \in 1..Len(combos) |->
                                      short_key_to_combo(pipe.short_keys[i], possible,
                                                         pipe.dropped)]]
    /\ UNCHANGED <<all_dims, keys, combos, possible, obj, call, ret>>

NextShorten == DropCommon \/ Abbreviate \/ MakeKeys \/ Unshorten

SpecShorten == InitShorten /\ [][NextShorten]_vars

SpecShortenAny == InitShortenAny /\ [][NextShorten]_vars

HasShortKeys == pipe.pc \in {"keyed", "unshortened"}

\* C2: two indicators with different full keys get different short keys
C2_ShortKeysUnique ==
    HasShortKeys =>
        \A i, j \in 1..Len(combos) :
            pipe.full_sdmx_keys[i] # pipe.full_sdmx_keys[j]
                => pipe.short_keys[i] # pipe.short_keys[j]

\* the candidate agrees with the full combo k: a dimension named by a token
\* has k's value, a dimension filled with a default has k's value in it
Agrees(cand, k) ==
    \A x \in DOMAIN cand :
        /\ cand[x].tag = "str" => cand[x].v = k[x]
        /\ cand[x].tag = "set" => k[x] \in cand[x].v
        /\ cand[x].tag \in {"str", "set"}

\* C3: unshortening the short key of a catalogue key k yields a candidate
\* that agrees with k
C3_UnshortenContainsKey ==
    pipe.pc = "unshortened" =>
        \A i \in 1..Len(combos) :
            \E n \in 1..Len(pipe.d[i]) : Agrees(pipe.d[i][n], combos[i])

\* C4: the first part of every short key is the lower-cased STAT_UNIT value
\* of its full key
C4_FirstPartIsStatUnit ==
    HasShortKeys =>
        \A i \in 1..Len(combos) :
            Head(Split(pipe.short_keys[i], HYPHEN)) = Lower(combos[i][STAT_UNIT])

(***************************************************************************)
(* uis.py and string_utils.py: the text matching behind Indicator lookups. *)
(***************************************************************************)
\* the printable ASCII characters in code-point order: " " (32) to "_" (95)
\* and "a" (97) to "~" (126); the backquote (96) cannot be written in a TLA+
\* string and occurs in no string of the model
AsciiLow ==
    <<" ","!","\"","#","$","%","&","'","(",")","*","+",",","-",".","/",
      "0","1","2","3","4","5","6","7","8","9",":",";","<","=",">","?",
      "@","A","B","C","D","E","F","G","H","I","J","K","L","M","N","O",
      "P","Q","R","S","T","U","V","W","X","Y","Z","[","\\","]","^","_">>
AsciiHigh ==
    <<"a","b","c","d","e","f","g","h","i","j","k","l","m","n","o",
      "p","q","r","s","t","u","v","w","x","y","z","{","|","}","~">>

\* ord(c), as a table over the characters above
OrdTable ==
    [c \in Range(AsciiLow) \cup Range(AsciiHigh) |->
        IF c \in Range(AsciiLow)
        THEN 31 + (CHOOSE i \in 1..Len(AsciiLow) : AsciiLow[i] = c)
        ELSE 96 + (CHOOSE i \in 1..Len(AsciiHigh) : AsciiHigh[i] = c)]
Ord(c) == OrdTable[c]

\* string.punctuation (without the backquote)
punctuation ==
    {"!","\"","#","$","%","&","'","(",")","*","+",",","-",".","/",":",";",
     "<","=",">","?","@","[","\\","]","^","_","{","|","}","~"}

\* Python's a < b for two strings: by code point, a proper prefix is smaller
RECURSIVE StrLess(_, _)
StrLess(a, b) ==
    IF Len(b) = 0 THEN FALSE
    ELSE IF Len(a) = 0 THEN TRUE
    ELSE IF a[1] # b[1] THEN Ord(a[1]) < Ord(b[1])
    ELSE StrLess(Tail(a), Tail(b))

\* Python's a < b for two lists of strings
RECURSIVE ListLess(_, _)
ListLess(a, b) ==
    IF Len(b) = 0 THEN FALSE
    ELSE IF Len(a) = 0 THEN TRUE
    ELSE IF a[1] # b[1] THEN StrLess(a[1], b[1])
    ELSE ListLess(Tail(a), Tail(b))

\* s.translate(UNPUNCTUATED): every punctuation character becomes a space
Unpunctuate(s) == [i \in 1..Len(s) |-> IF s[i] \in punctuation THEN " " ELSE s[i]]

\* re.sub(' +', ' ', s): every run of spaces becomes one space, i.e. a
\* space that is followed by a space is dropped
CollapseSpaces(s) ==
    LET pairs == [i \in 1..Len(s) |-> <<s[i], IF i < Len(s) THEN s[i + 1] ELSE "">>]
        kept == SelectSeq(pairs, LAMBDA p : ~(p[1] = " " /\ p[2] = " "))
    IN  [i \in 1..Len(kept) |-> kept[i][1]]

\* s.strip() for a string whose only whitespace is the space
Strip(s) ==
    LET inked == {i \in 1..Len(s) : s[i] # " "}
        first == CHOOSE i \in inked : \A j \in inked : i <= j
        last == CHOOSE i \in inked : \A j \in inked : i >= j
    IN  IF inked = {} THEN <<>> ELSE SubSeq(s, first, last)

clean_label(s) == Strip(CollapseSpaces(Lower(Unpunctuate(s))))

\* whether search part i and all later parts can each take a key part not in
\* used: tuple(search_parts) in permutations(key_parts, len(search_parts))
\* when exact, a permutation with "s in k" for every pair otherwise
RECURSIVE PermutationMatches(_, _, _, _, _)
PermutationMatches(search_parts, key_parts, i, used, exact) ==
    IF i > Len(search_parts) THEN TRUE
    ELSE \E j \in (1..Len(key_parts)) \ used :
            /\ IF exact THEN search_parts[i] = key_parts[j]
               ELSE Contains(key_parts[j], search_parts[i])
            /\ PermutationMatches(search_parts, key_parts, i + 1, used \cup {j}, exact)

\* the search parts found in key parts taken in the order of the key
RECURSIVE loose_key_match_in_key_order(_, _)
loose_key_match_in_key_order(search_parts, key_parts) ==
    IF Len(search_parts) = 0 THEN TRUE
    ELSE IF Len(key_parts) = 0 THEN FALSE
    ELSE \/ /\ Contains(Head(key_parts), Head(search_parts))
            /\ loose_key_match_in_key_order(Tail(search_parts), Tail(key_parts))
         \/ loose_key_match_in_key_order(search_parts, Tail(key_parts))
loose_key_match(search_parts, key_parts) ==
    IF \E i \in 1..Len(search_parts) :
          ~ \E j \in 1..Len(key_parts) : Contains(key_parts[j], search_parts[i])
    THEN FALSE
    ELSE PermutationMatches(search_parts, key_parts, 1, {}, FALSE)

\* the quick test alone: every search part is some part of the key
strict_key_match_any_position(search_parts, key_parts) ==
    \A i \in 1..Len(search_parts) : search_parts[i] \in Range(key_parts)
strict_key_match(search_parts, key_parts) ==
    IF \E i \in 1..Len(search_parts) : search_parts[i] \notin Range(key_parts)
    THEN FALSE
    ELSE PermutationMatches(search_parts, key_parts, 1, {}, TRUE)

\* a fraction length / initial_length, kept exact
Frac(n, d) == [num |-> n, den |-> d]
FracGreater(x, y) == x.num * y.den > y.num * x.den

\* Python's a > b for two tuples of fractions
RECURSIVE TupleGreater(_, _)
TupleGreater(a, b) ==
    IF Len(a) = 0 THEN FALSE
    ELSE IF Len(b) = 0 THEN TRUE
    ELSE IF a[1] # b[1] THEN FracGreater(a[1], b[1])
    ELSE TupleGreater(Tail(a), Tail(b))

IntGreater(a, b) == a > b

\* n > highest for the two kinds of value max_indices is given: counts
\* ("int") and tuples of fractions ("tuple")
Greater_by_span_count(kind, a, b) == IF kind = "int" THEN IntGreater(a, b) ELSE Len(a) > Len(b)
Greater(kind, a, b) == IF kind = "int" THEN IntGreater(a, b) ELSE TupleGreater(a, b)

\* the loop of max_indices; positions are 1-based here
max_indices(it, kind) ==
    LET step[i \in 0..Len(it)] ==
            IF i = 0 THEN [highest |-> None, indices |-> <<>>]
            ELSE IF i = 1 \/ Greater(kind, it[i], step[i - 1].highest)
                 THEN [highest |-> it[i], indices |-> <<i>>]
            ELSE IF it[i] = step[i - 1].highest
                 THEN [step[i - 1] EXCEPT !.indices = Append(@, i)]
            ELSE step[i - 1]
    IN  step[Len(it)]

count_matching_words(a, b) == Cardinality({i \in 1..Len(a) : a[i] \in Range(b)})

\* the first (start_a, start_b, length) the three nested loops reach, or None;
\* starts are 1-based here
longest_matched_sequence(a, b) ==
    LET Hit(sa, sb, n) == SubSeq(a, sa, sa + n - 1) = SubSeq(b, sb, sb + n - 1)
        Hits == {t \in (1..Len(a)) \X (1..Len(b)) \X (1..Len(a)) :
                    /\ t[1] + t[3] - 1 <= Len(a)
                    /\ t[2] + t[3] - 1 <= Len(b)
                    /\ Hit(t[1], t[2], t[3])}
        Before(t, u) == \/ t[3] > u[3]
                        \/ t[3] = u[3] /\ t[1] < u[1]
                        \/ t[3] = u[3] /\ t[1] = u[1] /\ t[2] <= u[2]
    IN  IF Hits = {} THEN None
        ELSE LET t == CHOOSE t \in Hits : \A u \in Hits : Before(t, u)
             IN  [start_a |-> t[1], start_b |-> t[2], length |-> t[3]]

RECURSIVE matchingness_loop(_, _, _)
matchingness_loop(a, b, initial_length) ==
    IF Len(a) = 0 \/ Len(b) = 0 THEN <<>>
    ELSE LET matched == longest_matched_sequence(a, b)
         IN  IF matched = None THEN <<>>
             ELSE <<Frac(matched.length, initial_length)>> \o
                  matchingness_loop(
                      SubSeq(a, 1, matched.start_a - 1)
                          \o SubSeq(a, matched.start_a + matched.length, Len(a)),
                      SubSeq(b, 1, matched.start_b - 1)
                          \o SubSeq(b, matched.start_b + matched.length, Len(b)),
                      initial_length)

matchingness(a, b) == matchingness_loop(a, b, Len(a))

\* the positions (1-based) of the labels (L in the source) that best match a
best_matches_label_in_query(a, labels) ==
    LET full == SelectSeq([i \in 1..Len(labels) |-> i], LAMBDA i : Contains(a, labels[i]))
        a_words == Split(a, SPACE)
        label_words == [i \in 1..Len(labels) |-> Split(labels[i], SPACE)]
        m1 == max_indices([i \in 1..Len(labels) |-> count_matching_words(a_words, label_words[i])],
                          "int")
        m2 == max_indices([j \in 1..Len(m1.indices) |->
                              matchingness(a_words, label_words[m1.indices[j]])], "tuple")
    IN  IF Len(full) > 0 THEN full
        ELSE IF m1.highest = 0 THEN <<>>
        ELSE IF Len(m1.indices) = 1 THEN m1.indices
        ELSE [j \in 1..Len(m2.indices) |-> m1.indices[m2.indices[j]]]
best_matches(a, labels) ==
    LET full == SelectSeq([i \in 1..Len(labels) |-> i], LAMBDA i : Contains(labels[i], a))
        a_words == Split(a, SPACE)
        label_words == [i \in 1..Len(labels) |-> Split(labels[i], SPACE)]
        m1 == max_indices([i \in 1..Len(labels) |-> count_matching_words(a_words, label_words[i])],
                          "int")
        m2 == max_indices([j \in 1..Len(m1.indices) |->
                              matchingness(a_words, label_words[m1.indices[j]])], "tuple")
    IN  IF Len(full) > 0 THEN full
        ELSE IF m1.highest = 0 THEN <<>>
        ELSE IF Len(m1.indices) = 1 THEN m1.indices
        ELSE [j \in 1..Len(m2.indices) |-> m1.indices[m2.indices[j]]]

(***************************************************************************)
(* uis.Indicator: the catalogue and its lookups.  An Indicator object is   *)
(* the catalogue row it was built from, [key, short_key, id, label]; two   *)
(* Indicators are equal when their keys are (__eq__, __hash__), and the    *)
(* rows of a catalogue have pairwise different keys.                       *)
(***************************************************************************)
Ok(v) == [tag |-> "ok", v |-> v]            \* a call that returned v
Raise(exc) == [tag |-> "raise", exc |-> exc]    \* a call that raised exc

\* the values of the argument "by"
ByNone == [kind |-> "None"]
BySUB == [kind |-> "SUB"]
ByALL == [kind |-> "ALL"]
ByStr(s) == [kind |-> "str", v |-> s]
ByList(l) == [kind |-> "list", v |-> l]
ByInt == [kind |-> "int"]

\* get_indicator_keys, from the rows of the CSV file: the columns of
\* Indicator.keys
get_indicator_keys(rows) ==
    [key |-> [i \in 1..Len(rows) |-> rows[i].key],
     short_key |-> [i \in 1..Len(rows) |-> rows[i].short_key],
     id |-> [i \in 1..Len(rows) |-> rows[i].id],
     id_lower |-> [i \in 1..Len(rows) |-> Lower(rows[i].id)],
     key_lower |-> [i \in 1..Len(rows) |-> Lower(rows[i].key)],
     label |-> [i \in 1..Len(rows) |-> rows[i].label]]

\* Indicator(index=i): the attributes __init__ reads from the columns
IndicatorAt(ks, index) ==
    [key |-> ks.key[index], short_key |-> ks.short_key[index],
     id |-> ks.id[index], label |-> ks.label[index]]

\* list.index(x) as a call: the first position (1-based), or ValueError
ListIndex(seq, x) ==
    IF x \in Range(seq) THEN Ok(IndexOf(seq, x)) ELSE Raise("ValueError")

\* Indicator._get_index; an argument is None or Str(s)
get_index(ks, key, id, short_key) ==
    IF IsTrue(key) THEN ListIndex(ks.key_lower, Lower(key.v))
    ELSE IF IsTrue(id) THEN ListIndex(ks.id_lower, Lower(id.v))
    ELSE IF IsTrue(short_key) THEN ListIndex(ks.short_key, Lower(short_key.v))
    ELSE None

\* Indicator.__init__ without index: self.keys[t][None] is a TypeError
Indicator(ks, id, key, short_key) ==
    LET index == get_index(ks, key, id, short_key)
    IN  IF index.tag = "none" THEN Raise("TypeError")
        ELSE IF index.tag = "raise" THEN index
        ELSE Ok(IndicatorAt(ks, index.v))

\* Indicator.lookup, for a string s
lookup_short_key_first(ks, s) ==
    LET q == Lower(s)
    IN  IF q \in Range(ks.key_lower) THEN Indicator(ks, None, Str(q), None)
        ELSE IF q \in Range(ks.short_key) THEN Indicator(ks, None, None, Str(q))
        ELSE IF q \in Range(ks.id_lower) THEN Indicator(ks, Str(q), None, None)
        ELSE Raise("KeyError")
lookup(ks, s) ==
    LET q == Lower(s)
    IN  IF q \in Range(ks.key_lower) THEN Indicator(ks, None, Str(q), None)
        ELSE IF q \in Range(ks.id_lower) THEN Indicator(ks, Str(q), None, None)
        ELSE IF q \in Range(ks.short_key) THEN Indicator(ks, None, None, Str(q))
        ELSE Raise("KeyError")

\* Indicator.parts and Indicator.comparison_key
parts(self) == Len(Split(self.short_key, HYPHEN))
comparison_key(self) == Split(self.short_key, HYPHEN)

\* sorted(r) for a set r of Indicators: every order __lt__ allows (equal
\* comparison keys keep the order the set was iterated in, which is open)
sorted(r) ==
    {q \in SeqsNoRepLen(r, Cardinality(r)) :
        \A i \in 1..(Len(q) - 1) :
            ~ ListLess(comparison_key(q[i + 1]), comparison_key(q[i]))}

is_ancestor_any_first_part(a, b) == Range(a) \subseteq Range(b) /\ Range(a) # Range(b)
is_ancestor_or_equal(a, b) == a[1] = b[1] /\ Range(a) \subseteq Range(b)
is_ancestor(a, b) == a[1] = b[1] /\ Range(a) \subseteq Range(b) /\ Range(a) # Range(b)

is_parent(a, b) == is_ancestor(a, b) /\ Cardinality(Range(b) \ Range(a)) = 1

\* get_relations(short_key, all_short_keys, relation, reverse)
get_relations(short_key, all_short_keys, relation, reverse) ==
    LET me == Split(short_key, HYPHEN)
        related(a, b) == IF relation = "is_parent" THEN is_parent(a, b) ELSE is_ancestor(a, b)
        predicate(a, b) == IF reverse THEN related(b, a) ELSE related(a, b)
    IN  SelectSeq(all_short_keys, LAMBDA other : predicate(Split(other, HYPHEN), me))

get_children(ks, self) ==
    get_relations(self.short_key, ks.short_key, "is_parent", TRUE)
get_descendents(ks, self) ==
    get_relations(self.short_key, ks.short_key, "is_ancestor", TRUE)

\* a set of call results as one result: the raised error if any call raised
Gather(results) ==
    IF \E x \in results : x.tag = "raise"
    THEN CHOOSE x \in results : x.tag = "raise"
    ELSE Ok({x.v : x \in results})

\* Indicator.disaggregate(by) for by = SUB and by = ALL, as a set
disaggregate(ks, self, by) ==
    LET others == IF by = BySUB THEN get_children(ks, self)
                  ELSE get_descendents(ks, self)
    IN  Gather({Indicator(ks, None, None, Str(others[i])) : i \in 1..Len(others)})

\* match_similar.reduce_key: the parts of the key outside ignore_indices
RECURSIVE reduce_parts(_, _, _)
reduce_parts(key_parts, ignore_indices, i) ==
    IF i > Len(key_parts) THEN <<>>
    ELSE (IF i \in ignore_indices THEN <<>> ELSE <<key_parts[i]>>)
         \o reduce_parts(key_parts, ignore_indices, i + 1)

\* Indicator.match_similar(inds, ignore): (similar_inds, matched_needles)
match_similar(ks, inds, ignore) ==
    LET ign == [i \in 1..Len(ignore) |-> Upper(ignore[i])]
        uis_dims == dims(UIS_DIMENSIONS, TRUE)
        ignore_indices == {IndexOf(uis_dims, ign[i]) : i \in 1..Len(ign)}
        reduce_key(key) == reduce_parts(Split(key, DOT), ignore_indices, 1)
        all_reduced_keys == [i \in 1..Len(ks.key) |-> <<ks.key[i], reduce_key(ks.key[i])>>]
        similar_to == [ind \in inds |->
                          LET reduced == reduce_key(ind.key)
                          IN  {kr[1] : kr \in {x \in Range(all_reduced_keys) :
                                                  x[2] = reduced /\ x[1] # ind.key}}]
        similar_keys == UNION {similar_to[ind] : ind \in inds}
        made == Gather({Indicator(ks, None, Str(k), None) : k \in similar_keys})
    IN  IF \E i \in 1..Len(ign) : ign[i] \notin Range(uis_dims)
        THEN Raise("ValueError")
        ELSE IF made.tag = "raise" THEN made
        ELSE Ok([similar_inds |-> made.v,
                 matched_needles |-> {ind \in inds : similar_to[ind] # {}}])

\* disaggregate_inds for by naming dimensions, from ms = match_similar(result, by)
disaggregate_inds_similar(result, ms, disag_only) ==
    LET r == IF disag_only THEN ms.v.matched_needles \cup ms.v.similar_inds
             ELSE result \cup ms.v.similar_inds
    IN  IF ms.tag = "raise" THEN ms
        ELSE IF r # {} THEN Ok(r)
        ELSE Raise("ValueError")

\* disaggregate_inds for by = SUB or ALL, from each = what ind.disaggregate(by)
\* gave for the indicators of result
disaggregate_inds_related(result, each) ==
    LET r == result \cup UNION each.v
    IN  IF each.tag = "raise" THEN each
        ELSE IF r # {} THEN Ok(r)
        ELSE Raise("TypeError")

\* Indicator.disaggregate_inds(result, by, disag_only), as a set
disaggregate_inds(ks, result, by, disag_only) ==
    IF by = ByNone THEN Ok(result)
    ELSE IF by.kind \in {"str", "list"}
    THEN disaggregate_inds_similar(
             result,
             match_similar(ks, result, IF by.kind = "str" THEN <<by.v>> ELSE by.v),
             disag_only)
    ELSE disaggregate_inds_related(
             result, Gather({disaggregate(ks, ind, by) : ind \in result}))

\* fuzzy_lookup: the positions whose short key, lower-cased key or lower-cased
\* ID passes the match (strict_key_match when exact, loose_key_match otherwise)
key_match_indices(ks, substrings, exact) ==
    LET match(key_parts) == IF exact THEN strict_key_match(substrings, key_parts)
                            ELSE loose_key_match(substrings, key_parts)
    IN  {i \in 1..Len(ks.key) :
            \/ match(Split(ks.short_key[i], HYPHEN))
            \/ match(Split(ks.key_lower[i], DOT))
            \/ match(Split(ks.id_lower[i], DOT))}

\* fuzzy_lookup: the positions the label tier finds
label_match_indices(ks, s) ==
    Range(best_matches(s, [i \in 1..Len(ks.label) |-> clean_label(ks.label[i])]))

\* interpret_indices up to the filter for disaggregatable indicators
matched_needles(ms) == IF ms.tag = "raise" THEN ms ELSE Ok(ms.v.matched_needles)

disaggregatable_matches(ks, indices, by, disag_only) ==
    IF by.kind = "list" /\ disag_only
    THEN matched_needles(match_similar(ks, {IndicatorAt(ks, i) : i \in indices}, by.v))
    ELSE Ok({IndicatorAt(ks, i) : i \in indices})

\* fuzzy_lookup.interpret_indices: None, the matches of the tier, or an error
\* (the part after the filter, from filtered = disaggregatable_matches(...))
interpret_matches(indices, filtered, shortest, allow_multiple) ==
    LET min_length == CHOOSE n \in {parts(m) : m \in filtered.v} :
                          \A m \in filtered.v : n <= parts(m)
        matches == IF shortest THEN {m \in filtered.v : parts(m) = min_length}
                   ELSE filtered.v
    IN  IF indices = {} THEN None
        ELSE IF filtered.tag = "raise" THEN filtered
        ELSE IF filtered.v = {} THEN None
        ELSE IF Cardinality(matches) = 1 \/ allow_multiple THEN Ok(matches)
        ELSE None

interpret_indices_keep_all(ks, indices, by, shortest, allow_multiple, disag_only) ==
    interpret_matches(indices, disaggregatable_matches(ks, indices, by, disag_only),
                      FALSE, allow_multiple)
interpret_indices(ks, indices, by, shortest, allow_multiple, disag_only) ==
    interpret_matches(indices, disaggregatable_matches(ks, indices, by, disag_only),
                      shortest, allow_multiple)

\* fuzzy_lookup: what each tier finds for the query s before
\* interpret_indices: the result of lookup(s) and the positions that the
\* strict match, the loose match and the label match select
tier_matches(ks, s) ==
    [exact |-> lookup(ks, s),
     strict |-> key_match_indices(ks, Split(s, SPACE), TRUE),
     loose |-> key_match_indices(ks, Split(s, SPACE), FALSE),
     label |-> label_match_indices(ks, s)]

\* fuzzy_lookup from what the tiers find: the tier that resolved the query,
\* the matches r that tier handed to finalize, and what finalize made of them
\* (a set, which the caller of this operator sorts)
first_tier(by, exact, strict, loose, label) ==
    LET finalize(tier, r) == [tier |-> tier, r |-> r, result |-> None]
        failed(tier, error) == [tier |-> tier, r |-> {}, result |-> error]
    IN  IF by.kind = "int" THEN failed("none", Raise("TypeError"))
        ELSE IF exact.tag = "ok" THEN finalize("exact", {exact.v})
        ELSE IF exact.exc # "KeyError" THEN failed("exact", exact)
        ELSE IF strict.tag = "raise" THEN failed("strict", strict)
        ELSE IF strict.tag = "ok" THEN finalize("strict", strict.v)
        ELSE IF loose.tag = "raise" THEN failed("loose", loose)
        ELSE IF loose.tag = "ok" THEN finalize("loose", loose.v)
        ELSE IF label.tag = "raise" THEN failed("label", label)
        ELSE IF label.tag = "ok" THEN finalize("label", label.v)
        ELSE failed("none", Raise("ValueError"))

\* fuzzy_lookup.finalize on the matches of the tier that resolved the query
finalize(ks, tier, by, disag_only) ==
    IF tier.result = None
    THEN [tier EXCEPT !.result = disaggregate_inds(ks, tier.r, by, disag_only)]
    ELSE tier

fuzzy_lookup_tiers(ks, found, by, shortest, allow_multiple, disag_only) ==
    finalize(ks,
             first_tier(by, found.exact,
                        interpret_indices(ks, found.strict, by, shortest,
                                          allow_multiple, disag_only),
                        interpret_indices(ks, found.loose, by, shortest,
                                          allow_multiple, disag_only),
                        interpret_indices(ks, found.label, by, shortest,
                                          allow_multiple, disag_only)),
             by, disag_only)

\* Indicator.fuzzy_lookup up to the final sort
fuzzy_lookup(ks, s, by, shortest, allow_multiple, disag_only) ==
    fuzzy_lookup_tiers(ks, tier_matches(ks, s), by, shortest, allow_multiple, disag_only)

\* make_uis_indicator_dict.match_short_key(key, indicators)
match_short_key(key, indicators) ==
    LET r == SelectSeq(indicators, LAMBDA ind : ind.short_key = key)
    IN  IF Len(r) > 1 THEN Raise("KeyError")
        ELSE IF Len(r) = 0 THEN Raise("KeyError")
        ELSE Ok(r[1])

(***************************************************************************)
(* The catalogue under test: rows in the style of the UIS catalogue, with  *)
(* a short key carried by two rows and an ID equal to another row's short  *)
(* key among them.                                                         *)
(***************************************************************************)
MaxCatalog == 3     \* largest number of rows of a catalogue

\* a full key over uis_filter's indicator dimensions
IndicatorKey(stat_unit, level, sx, wealth, location) ==
    Join(<<stat_unit, PT, level, T_, sx, SCH_AGE_GROUP, T_, INST_T, Z_, wealth,
           location, T_, T_, Z_, Z_, Z_, Z_, Z_, W00, W00, Z_>>, DOT)

Row(key, short_key, id, label) ==
    [key |-> key, short_key |-> short_key, id |-> id, label |-> label]

ROFST == <<"R","O","F","S","T">>
ROFST_PHH == <<"R","O","F","S","T","_","P","H","H">>
L3 == <<"L","3">>
RUR == <<"R","U","R">>
Q1 == <<"Q","1">>

Rofst3F == Row(IndicatorKey(ROFST, L3, F, Z_, T_), <<"r","o","f","s","t","-","3","-","f">>, <<"R","O","F","S","T",".","3",".","F">>,
               <<"O","u","t","-","o","f","-","s","c","h","o","o","l"," ","r","a","t","e",","," ","f","e","m","a","l","e">>)
Rofst3FRur == Row(IndicatorKey(ROFST, L3, F, Z_, RUR), <<"r","o","f","s","t","-","3","-","f","-","r","u","r">>,
                  <<"R","O","F","S","T",".","3",".","F",".","R","U","R">>, <<"O","u","t","-","o","f","-","s","c","h","o","o","l"," ","r","a","t","e",","," ","f","e","m","a","l","e",","," ","r","u","r","a","l">>)
Rofst3M == Row(IndicatorKey(ROFST, L3, M, Z_, T_), <<"r","o","f","s","t","-","3","-","m">>, <<"R","O","F","S","T",".","3",".","M">>,
               <<"O","u","t","-","o","f","-","s","c","h","o","o","l"," ","r","a","t","e",","," ","m","a","l","e">>)
Rofst2F == Row(IndicatorKey(ROFST, L2, F, Z_, T_), <<"r","o","f","s","t","-","2","-","f">>, <<"R","O","F","S","T",".","2",".","F">>,
               <<"O","u","t","-","o","f","-","s","c","h","o","o","l"," ","r","a","t","e"," ","(","l","o","w","e","r",")",","," ","f","e","m","a","l","e">>)
RofstPhhF == Row(IndicatorKey(ROFST_PHH, T_, F, Z_, T_), <<"r","o","f","s","t","_","p","h","h","-","f">>,
                 <<"R","O","F","S","T","_","P","H","H",".","F">>, <<"H","o","u","s","e","h","o","l","d"," ","o","u","t","-","o","f","-","s","c","h","o","o","l"," ","r","a","t","e",","," ","f","e","m","a","l","e">>)
Rofst == Row(IndicatorKey(ROFST, T_, T_, Z_, T_), <<"r","o","f","s","t">>, <<"R","O","F","S","T",".","T">>,
             <<"O","u","t","-","o","f","-","s","c","h","o","o","l"," ","r","a","t","e">>)
Rofst3FQ1 == Row(IndicatorKey(ROFST, L3, F, Q1, T_), <<"r","o","f","s","t","-","3","-","f">>, <<"R","O","F","S","T",".","3",".","F",".","Q","1">>,
                 <<"O","u","t","-","o","f","-","s","c","h","o","o","l"," ","r","a","t","e",","," ","f","e","m","a","l","e",","," ","p","o","o","r","e","s","t">>)
RofstF == Row(IndicatorKey(ROFST, T_, F, Z_, T_), <<"r","o","f","s","t","-","f">>, <<"R","O","F","S","T">>,
              <<"O","u","t","-","o","f","-","s","c","h","o","o","l"," ","r","a","t","e",","," ","f","e","m","a","l","e",","," ","t","o","t","a","l">>)

IndicatorPool ==
    <<Rofst3F, Rofst3FRur, Rofst3M, Rofst2F, RofstPhhF, Rofst, Rofst3FQ1, RofstF>>

\* the rows of the pool at the positions I, in the pool's order
RECURSIVE RowsAt(_)
RowsAt(I) ==
    IF I = {} THEN <<>>
    ELSE LET i == CHOOSE i \in I : \A j \in I : i <= j
         IN  <<IndicatorPool[i]>> \o RowsAt(I \ {i})

Catalogues ==
    {RowsAt(I) : I \in {J \in SUBSET (1..Len(IndicatorPool)) :
                           Cardinality(J) \in 1..MaxCatalog}}

\* the queries put to the catalogue
Queries ==
    {<<"r","o","f","s","t"," ","3"," ","f">>, <<"r","o","f","s","t"," ","f">>, <<"r","o","f","s","t">>, <<"R","O","F","S","T",".","3",".","F">>, <<"r","o","f","s","t","-","3","-","f">>,
     Rofst3F.key, <<"o","u","t"," ","o","f"," ","s","c","h","o","o","l"," ","r","a","t","e"," ","f","e","m","a","l","e">>, <<"f","e","m","a","l","e"," ","s","c","h","o","o","l"," ","r","a","t","e">>, <<"x","y","z">>,
     <<"O","u","t","-","o","f","-","s","c","h","o","o","l"," ","r","a","t","e",","," ","f","e","m","a","l","e">>}

ByValues == {ByNone, BySUB, ByALL, ByList(<<sex>>), ByStr(sex), ByInt}

\* Indicator.keys = get_indicator_keys(); uis_filter = Filter(UIS_DIMENSIONS)
InitLookup ==
    /\ keys \in {get_indicator_keys(rows) : rows \in Catalogues}
    /\ all_dims = UIS_DIMENSIONS
    /\ combos = <<>>
    /\ possible = <<>>
    /\ pipe = Idle
    /\ call = [op |-> "init"]
    /\ ret = None
    /\ obj = NoObject

\* Indicator.lookup(s)
Lookup ==
    /\ call.op = "init"
    /\ \E s \in Queries :
          /\ call' = [op |-> "lookup", s |-> s]
          /\ ret' = lookup(keys, s)
    /\ UNCHANGED <<all_dims, keys, combos, possible, pipe, obj>>

\* Indicator(short_key=s)
IndicatorByShortKey ==
    /\ call.op = "init"
    /\ \E s \in Queries :
          /\ call' = [op |-> "Indicator", s |-> s]
          /\ ret' = Indicator(keys, None, None, Str(s))
    /\ UNCHANGED <<all_dims, keys, combos, possible, pipe, obj>>

\* match_short_key(s, indicators) on the rows of the catalogue
MatchShortKey ==
    /\ call.op = "init"
    /\ \E s \in Queries :
          /\ call' = [op |-> "match_short_key", s |-> s]
          /\ ret' = match_short_key(s, [i \in 1..Len(keys.key) |-> IndicatorAt(keys, i)])
    /\ UNCHANGED <<all_dims, keys, combos, possible, pipe, obj>>

\* the arguments fuzzy_lookup is called with beside the query; disag_only is
\* only read when by names dimensions
FuzzyArguments ==
    {a \in [by : ByValues, shortest : BOOLEAN, allow_multiple : BOOLEAN,
            disag_only : BOOLEAN] :
        /\ a.by.kind \notin {"str", "list"} => a.disag_only
        /\ a.by.kind \in {"int", "str"} => a.shortest /\ a.allow_multiple}

\* the dimensions that by names, as disaggregate_inds passes them on
by_dimensions(by) == IF by.kind = "str" THEN <<by.v>> ELSE by.v

\* the message of an error raised inside a tier or by finalize: from
\* match_similar for a dimension that does not exist, else from
\* disaggregate_inds
disaggregation_message(by) ==
    IF by.kind \notin {"str", "list"} THEN <<"c","a","n"," ","o","n","l","y"," ","j","o","i","n"," ","a","n"," ","i","t","e","r","a","b","l","e">>
    ELSE IF \E i \in 1..Len(by_dimensions(by)) :
                Upper(by_dimensions(by)[i]) \notin Range(dims(UIS_DIMENSIONS, TRUE))
    THEN <<"D","i","m","e","n","s","i","o","n"," ","d","o","e","s"," ","n","o","t"," ","e","x","i","s","t">>
    ELSE <<"N","o"," ","i","n","d","i","c","a","t","o","r","s"," ","f","o","u","n","d"," ","t","h","a","t"," ","c","a","n"," ","b","e"," ","d","i","s","a","g","g","r","e","g","a","t","e","d"," ","b","y"," ">>
         \o Join(by_dimensions(by), <<"/">>)

\* the message of the error fuzzy_lookup(s, by, ...) raised, given the
\* outcome out of its tiers; empty when it returned
fuzzy_lookup_message_without_query(s, by, out) ==
    IF out.result.tag # "raise" THEN <<>>
    ELSE IF out.tier = "none" /\ by.kind = "int"
    THEN <<"b","y"," ","m","u","s","t"," ","b","e"," ","a"," ","s","t","r","i","n","g",","," ","l","i","s","t",","," ","S","U","B",","," ","A","L","L"," ","o","r"," ","N","o","n","e">>
    ELSE IF out.tier = "none"
    THEN <<"N","o"," ","i","n","d","i","c","a","t","o","r","s"," ","f","o","u","n","d"," ","t","h","a","t"," ","m","a","t","c","h"," ","t","h","e"," ","q","u","e","r","y">>
    ELSE disaggregation_message(by)
fuzzy_lookup_message(s, by, out) ==
    IF out.result.tag # "raise" THEN <<>>
    ELSE IF out.tier = "none" /\ by.kind = "int"
    THEN <<"b","y"," ","m","u","s","t"," ","b","e"," ","a"," ","s","t","r","i","n","g",","," ","l","i","s","t",","," ","S","U","B",","," ","A","L","L"," ","o","r"," ","N","o","n","e">>
    ELSE IF out.tier = "none"
    THEN <<"N","o"," ","i","n","d","i","c","a","t","o","r","s"," ","f","o","u","n","d"," ","t","h","a","t"," ","m","a","t","c","h"," ","'">> \o s \o <<"'">>
    ELSE disaggregation_message(by)

\* every call of fuzzy_lookup on the catalogue ks with a value it can return.
\* The call keeps, beside its arguments, what the tiers found, the tier that
\* resolved the query, the matches r of that tier and the message of the error
\* it raised.
fuzzy_lookup_returns(s, a, found, out) ==
    {[call |-> [op |-> "fuzzy_lookup", s |-> s, by |-> a.by, shortest |-> a.shortest,
                allow_multiple |-> a.allow_multiple, disag_only |-> a.disag_only,
                found |-> found, tier |-> out.tier, r |-> out.r,
                message |-> fuzzy_lookup_message(s, a.by, out)],
      ret |-> x] :
        x \in IF out.result.tag = "ok" THEN {Ok(q) : q \in sorted(out.result.v)}
              ELSE {out.result}}

fuzzy_lookup_found(ks, s, found) ==
    UNION {fuzzy_lookup_returns(s, a, found,
                                fuzzy_lookup_tiers(ks, found, a.by, a.shortest,
                                                   a.allow_multiple, a.disag_only))
           : a \in FuzzyArguments}

fuzzy_lookup_calls(ks) ==
    UNION {fuzzy_lookup_found(ks, s, tier_matches(ks, s)) : s \in Queries}

\* Indicator.fuzzy_lookup(s, by, shortest, allow_multiple, disag_only)
FuzzyLookup ==
    /\ call.op = "init"
    /\ \E x \in fuzzy_lookup_calls(keys) :
          /\ call' = x.call
          /\ ret' = x.ret
    /\ UNCHANGED <<all_dims, keys, combos, possible, pipe, obj>>

NextLookup == Lookup \/ IndicatorByShortKey \/ MatchShortKey \/ FuzzyLookup

SpecLookup == InitLookup /\ [][NextLookup]_vars

(***************************************************************************)
(* Properties of the lookups.                                              *)
(***************************************************************************)
\* a fuzzy_lookup call that got past the check of "by"
IsFuzzy == call.op = "fuzzy_lookup" /\ call.by.kind # "int"

\* the Indicators at the positions a tier found
TierRows(indices) == {IndicatorAt(keys, i) : i \in indices}

\* what remains of the tier's matches after tie-breaking, before the test of
\* allow_multiple: None, or the matches
Remaining(tier) ==
    interpret_indices(keys, call.found[tier], call.by, call.shortest, TRUE,
                      call.disag_only)

\* the first of the tiers 2 to 4 in which something remains, or "none"
FirstTierWithMatches ==
    IF Remaining("strict").tag = "ok" THEN "strict"
    ELSE IF Remaining("loose").tag = "ok" THEN "loose"
    ELSE IF Remaining("label").tag = "ok" THEN "label"
    ELSE "none"

\* C5: fuzzy_lookup consults the loose tier only when the strict tier matched
\* no indicator: when some indicator passes strict_key_match for the query,
\* the loose tier does not resolve it and no indicator that matches only
\* loosely is returned.
C5_LooseOnlyWhenStrictEmpty ==
    (IsFuzzy /\ call.found.exact.tag = "raise" /\ call.found.strict # {})
    => /\ call.tier # "loose"
       /\ ret.tag = "ok"
            => Range(ret.v) \cap TierRows(call.found.loose \ call.found.strict) = {}

\* C6: with allow_multiple false, more than one indicator remaining in a tier
\* after tie-breaking makes fuzzy_lookup raise an error; with allow_multiple
\* true the tier returns all the remaining indicators.
C6_AmbiguityIsAnError ==
    (IsFuzzy /\ call.found.exact.tag = "raise" /\ FirstTierWithMatches # "none")
    => LET remaining == Remaining(FirstTierWithMatches).v
       IN  /\ (~call.allow_multiple /\ Cardinality(remaining) > 1) => ret.tag = "raise"
           /\ call.allow_multiple =>
                 call.tier = FirstTierWithMatches /\ call.r = remaining

\* the number of catalogue rows that carry the short key s
ShortKeyCount(s) ==
    Cardinality({i \in 1..Len(keys.short_key) : keys.short_key[i] = s})

\* the call looks an indicator up by its short key
IsShortKeyLookup ==
    \/ call.op \in {"Indicator", "match_short_key"}
    \/ /\ call.op = "lookup"
       /\ Lower(call.s) \notin Range(keys.key_lower) \cup Range(keys.id_lower)

\* C7: a lookup by a short key that more than one catalogue row carries
\* reports an error, in Indicator(short_key=...), Indicator.lookup and
\* match_short_key alike.
C7_DuplicateShortKeyIsAnError ==
    (IsShortKeyLookup /\ ShortKeyCount(Lower(call.s)) > 1) => ret.tag = "raise"

\* what the exact tier made of the query: the result of lookup, or of the
\* exact tier of fuzzy_lookup
ExactTierResult ==
    IF call.op = "lookup" THEN ret
    ELSE IF call.tier = "exact" /\ Cardinality(call.r) = 1
         THEN Ok(CHOOSE ind \in call.r : TRUE)
    ELSE Raise("KeyError")

\* C8: the exact tier of lookup and fuzzy_lookup lower-cases the query and
\* returns the indicator whose full key equals it, otherwise the one whose ID
\* equals it, otherwise the one whose short key equals it; fuzzy_lookup
\* without disaggregation returns just that indicator.
C8_ExactTierOrder ==
    (call.op = "lookup" \/ IsFuzzy)
    => LET q == Lower(call.s)
           by_key == q \in Range(keys.key_lower)
           by_id == q \in Range(keys.id_lower)
           by_short_key == q \in Range(keys.short_key)
           res == ExactTierResult
       IN  /\ by_key => res.tag = "ok" /\ Lower(res.v.key) = q
           /\ (~by_key /\ by_id) => res.tag = "ok" /\ Lower(res.v.id) = q
           /\ (~by_key /\ ~by_id /\ by_short_key)
                 => res.tag = "ok" /\ res.v.short_key = q
           /\ (IsFuzzy /\ call.by = ByNone /\ (by_key \/ by_id \/ by_short_key))
                 => ret = Ok(<<res.v>>)

\* a lookup whose query is the ID of one row and the short key of another:
\* the row with that ID is returned
C8_Witness ==
    /\ call.op = "lookup"
    /\ Lower(call.s) \notin Range(keys.key_lower)
    /\ Lower(call.s) \in Range(keys.id_lower)
    /\ Lower(call.s) \in Range(keys.short_key)
    /\ ret.tag = "ok"
    /\ Lower(ret.v.id) = Lower(call.s)
    /\ ret.v.short_key # Lower(call.s)

\* a call that one of the tiers 2 to 4 resolved with shortest enabled
ShortestTierCall ==
    IsFuzzy /\ call.shortest /\ call.tier \in {"strict", "loose", "label"}

rofst_3_f == <<"r","o","f","s","t","-","3","-","f">>
rofst_3_f_rur == <<"r","o","f","s","t","-","3","-","f","-","r","u","r">>

\* the example: the query "rofst 3 f" on a catalogue with the short keys
\* "rofst-3-f" and "rofst-3-f-rur"
ShortestExample ==
    /\ IsFuzzy /\ call.shortest
    /\ call.s = <<"r","o","f","s","t"," ","3"," ","f">>
    /\ {rofst_3_f, rofst_3_f_rur} \subseteq Range(keys.short_key)

\* the example's outcome: the strict tier matches both and returns only the
\* indicators with the short key "rofst-3-f"
ShortestExampleOutcome ==
    /\ call.tier = "strict"
    /\ {rofst_3_f, rofst_3_f_rur} \subseteq {m.short_key : m \in TierRows(call.found.strict)}
    /\ {m.short_key : m \in call.r} = {rofst_3_f}

\* C9 as stated: with shortest enabled, every indicator a tier 2 to 4 returns
\* has the fewest short-key parts among all that tier's matches, and the
\* example returns only "rofst-3-f".
C9_ShortestAmongTierMatches ==
    /\ ShortestTierCall =>
          \A m \in call.r : \A x \in TierRows(call.found[call.tier]) :
              parts(m) <= parts(x)
    /\ ShortestExample => ShortestExampleOutcome

\* the tier's matches that interpret_indices keeps before tie-breaking: all
\* of them, or only the disaggregatable ones when by is a list of dimensions
\* and disag_only is set
KeptMatches(tier) ==
    disaggregatable_matches(keys, call.found[tier], call.by, call.disag_only).v

\* C9: with shortest enabled, every indicator a tier 2 to 4 returns has the
\* fewest short-key parts among the tier's matches that are kept (all of
\* them unless by is a list of dimensions and disag_only is set, then the
\* disaggregatable ones); in the example, without that filter and with one
\* row carrying "rofst-3-f" or allow_multiple set, the strict tier matches
\* both and returns only "rofst-3-f".
C9_ShortestAmongKeptMatches ==
    /\ ShortestTierCall =>
          /\ call.r \subseteq KeptMatches(call.tier)
          /\ \A m \in call.r : \A x \in KeptMatches(call.tier) : parts(m) <= parts(x)
    /\ (/\ ShortestExample
        /\ ~(call.by.kind = "list" /\ call.disag_only)
        /\ (call.allow_multiple \/ ShortKeyCount(rofst_3_f) = 1))
          => ShortestExampleOutcome

\* the example, resolved by the strict tier
C9_Witness ==
    /\ ShortestExample
    /\ call.by = ByNone
    /\ ShortestExampleOutcome
    /\ {m.short_key : m \in Range(ret.v)} = {rofst_3_f}

\* the positions whose cleaned label equals / contains the query
LabelEquals(s) ==
    {i \in 1..Len(keys.label) : clean_label(keys.label[i]) = s}
LabelContains(s) ==
    {i \in 1..Len(keys.label) : Contains(clean_label(keys.label[i]), s)}

\* a query that no key tier resolved and that equals a cleaned label
LabelQuery ==
    /\ IsFuzzy
    /\ call.tier \in {"label", "none"}
    /\ LabelEquals(call.s) # {}

\* the matchingness of the query against the label at position i is (1,)
PerfectScore(s, i) ==
    LET a == Split(s, SPACE)
        score == matchingness(a, Split(clean_label(keys.label[i]), SPACE))
    IN  Len(score) = 1 /\ score[1] = Frac(Len(a), Len(a))

\* C10 as stated: a query equal to the cleaned label of an indicator, which
\* no key tier resolves, makes the label tier return that single indicator,
\* with a perfect matchingness score.
C10_EqualLabelAlone ==
    LabelQuery =>
        \A i \in LabelEquals(call.s) :
            /\ call.tier = "label"
            /\ call.r = {IndicatorAt(keys, i)}
            /\ PerfectScore(call.s, i)

\* C10: for a query equal to the cleaned label of an indicator, which no key
\* tier resolves, the label tier matches every indicator whose cleaned label
\* contains the query, that indicator among them; when it is the only one
\* (and by is not a list of dimensions with disag_only set) the label tier
\* returns that single indicator; its matchingness score is perfect.
C10_EqualLabelAmongContaining ==
    LabelQuery =>
        \A i \in LabelEquals(call.s) :
            /\ call.found.label = LabelContains(call.s)
            /\ i \in call.found.label
            /\ (call.found.label = {i} /\ ~(call.by.kind = "list" /\ call.disag_only))
                  => call.tier = "label" /\ call.r = {IndicatorAt(keys, i)}
            /\ PerfectScore(call.s, i)

\* a label query that the label tier resolved to the one indicator whose
\* cleaned label equals the query
C10_Witness ==
    /\ LabelQuery
    /\ Len(keys.label) > 1
    /\ call.tier = "label"
    /\ \E i \in LabelEquals(call.s) :
          /\ call.found.label = {i}
          /\ call.r = {IndicatorAt(keys, i)}
          /\ ret = Ok(<<IndicatorAt(keys, i)>>)

\* no tier found a candidate: the exact lookup failed and the strict, the
\* loose and the label match selected no position
NoCandidate ==
    /\ call.found.exact.tag = "raise"
    /\ call.found.strict = {} /\ call.found.loose = {} /\ call.found.label = {}

\* C11: fuzzy_lookup never returns an empty list, and a call in which no
\* tier yields a candidate (no tier found one, or none was left to return)
\* raises an error whose message contains the query string.
C11_NeverEmptyNamesQuery ==
    call.op = "fuzzy_lookup" =>
        /\ ret.tag = "ok" => Len(ret.v) >= 1
        /\ (IsFuzzy /\ (NoCandidate \/ call.tier = "none")) =>
               ret.tag = "raise" /\ Contains(call.message, call.s)

C11_Witness == IsFuzzy /\ NoCandidate /\ ret.tag = "raise"

(***************************************************************************)
(* short_key_to_combo called on its own: short keys put to possible-value  *)
(* tables, with and without a drop list.                                   *)
(***************************************************************************)
\* possible-value tables: the SEX, EDU_LEVEL and GRADE code lists vary
UnshortenTables ==
    {[PossibleTable EXCEPT ![SEX] = sx, ![EDU_LEVEL] = lev, ![GRADE] = gr] :
        sx \in {<<T_, M, F>>, <<T_, Z_, F, M>>},
        lev \in {<<L1, L2>>, <<T_, L1, L2>>},
        gr \in {<<T_, U_>>, <<T_, L1>>}}

\* the short keys put to short_key_to_combo
UnshortenKeys ==
    {<<"n","e","r","a","-","l","1">>, <<"n","e","r","a">>, <<"n","e","r","a","-","f">>, <<"n","e","r","a","-","l","1","-","f">>, <<"n","e","r","a","-","f","-","l","1">>, <<"n","e","r","a","-","1">>,
     <<"g","p","i","-","l","1">>, <<"n","e","r","a","-","g","r","a","d","e","_","_","u">>,
     <<"n","e","r","a","-","l","1","-","l","1">>, <<"n","e","r","a","-","f","-","f">>}

\* the drop lists: (stat unit, dimension, dropped value) triples
UnshortenDropLists == {{}, {<<NERA, SEX, F>>}, {<<NERA, EDU_LEVEL, L1>>}}

\* all_dims = cache.load('all-dimensions')
InitUnshorten ==
    /\ possible \in UnshortenTables
    /\ combos = <<>>
    /\ pipe = Idle
    /\ all_dims = <<>>
    /\ keys = <<>>
    /\ call = [op |-> "init"]
    /\ ret = None
    /\ obj = NoObject

\* short_key_to_combo(key, possible, dropped_dims)
ShortKeyToCombo ==
    /\ call.op = "init"
    /\ \E key \in UnshortenKeys, dropped_dims \in UnshortenDropLists :
          /\ call' = [op |-> "short_key_to_combo", key |-> key,
                      dropped_dims |-> dropped_dims]
          /\ ret' = short_key_to_combo(key, possible, dropped_dims)
    /\ UNCHANGED <<all_dims, keys, combos, possible, pipe, obj>>

NextUnshorten == ShortKeyToCombo

SpecUnshorten == InitUnshorten /\ [][NextUnshorten]_vars

\* the call of the example: "nera-l1" against a table with NERA among the
\* stat units, SEX in {_T, M, F}, EDU_LEVEL in {L1, L2} and no other
\* dimension with a value that L1 matches; EDU_LEVEL is not dropped
NeraL1Example ==
    /\ call.op = "short_key_to_combo"
    /\ call.key = <<"n","e","r","a","-","l","1">>
    /\ NERA \in Range(possible[STAT_UNIT])
    /\ Range(possible[SEX]) = {T_, M, F}
    /\ Range(possible[EDU_LEVEL]) = {L1, L2}
    /\ \A x \in Range(unshorten_dims) \ {EDU_LEVEL} :
           ~ IsTrue(value_matches_dim(L1, x, possible[x]))
    /\ \A t \in call.dropped_dims : ~ (t[1] = NERA /\ t[2] = EDU_LEVEL)

\* C12 as stated: the example returns one candidate, which gives SEX the
\* value "_T" and EDU_LEVEL the value "L1"
C12_OneCandidateSexTotal ==
    NeraL1Example =>
        /\ Len(ret) = 1
        /\ ret[1][SEX] = Str(T_)
        /\ ret[1][EDU_LEVEL] = Str(L1)

\* C12 amended: the example returns one candidate; it gives STAT_UNIT the
\* value "NERA", EDU_LEVEL the value "L1", SEX the list ["_T"] of its
\* removable possible values, and every other dimension the list of its
\* removable possible values
C12_OneCandidateSexDefaults ==
    NeraL1Example =>
        /\ Len(ret) = 1
        /\ DOMAIN ret[1] = {STAT_UNIT} \cup Range(unshorten_dims)
        /\ ret[1][STAT_UNIT] = Str(NERA)
        /\ ret[1][EDU_LEVEL] = Str(L1)
        /\ ret[1][SEX] = AnyOf({T_})
        /\ \A x \in Range(unshorten_dims) \ {EDU_LEVEL} :
               ret[1][x] = AnyOf({v \in Range(possible[x]) :
                                     v \in Range(remove) /\ <<x, v>> \notin dont_remove})

C12_Witness == NeraL1Example /\ Len(ret) = 1 /\ call.dropped_dims = {}

(***************************************************************************)
(* A key built by Filter.dict_to_key, shortened as the script shortens the *)
(* keys it reads: sdmx_key_to_dict, abbreviate_combo, dict_to_sdmx_key,    *)
(* shorten_sdmx_key.                                                       *)
(***************************************************************************)
\* sdmx_key_to_dict(key) (unesco_data.dimension_string_to_dict)
sdmx_key_to_dict(key) == ZipDict(dimension_ids, Split(key, DOT))

\* the short key of a full key
short_key_of(key) ==
    shorten_sdmx_key(dict_to_sdmx_key(abbreviate_combo(sdmx_key_to_dict(key))))

\* the key just built is shortened
ShortenKey ==
    /\ call.op = "dict_to_key"
    /\ call' = [op |-> "shorten", key |-> ret, d |-> call.d, d_ind |-> call.ind]
    /\ ret' = short_key_of(ret)
    /\ UNCHANGED <<all_dims, keys, combos, possible, pipe, obj>>

NextKeyShorten == DictToKey \/ ShortenKey

SpecKeyShorten == InitFilter /\ [][NextKeyShorten]_vars

\* the example: dimensions [STAT_UNIT, SEX, EDU_LEVEL, REF_AREA, TIME_PERIOD],
\* value map {STAT_UNIT: NERA, SEX: _T, EDU_LEVEL: L1}, indicator key
ShortenExample ==
    /\ call.op = "shorten"
    /\ all_dims = ExampleDims
    /\ call.d = ExampleMap
    /\ call.d_ind

\* C13 as stated: in the example dict_to_key returns "NERA._T.L1" and the
\* short key of that key is "nera-l1"
C13_ExampleShortKeyKeepsLevel ==
    ShortenExample => call.key = <<"N","E","R","A",".","_","T",".","L","1">> /\ ret = <<"n","e","r","a","-","l","1">>

\* C13 amended: in the example dict_to_key returns "NERA._T.L1" and the
\* short key of that key is "nera-1" (the EDU_LEVEL value loses its "L");
\* no short key has an empty part or a part "_t"
C13_ExampleShortKeyReplacesLevel ==
    call.op = "shorten" =>
        /\ ShortenExample => call.key = <<"N","E","R","A",".","_","T",".","L","1">> /\ ret = <<"n","e","r","a","-","1">>
        /\ ret # <<>> => \A p \in Range(Split(ret, HYPHEN)) : p # <<>> /\ p # <<"_","t">>

C13_Witness == ShortenExample /\ ret = <<"n","e","r","a","-","1">>

(***************************************************************************)
(* is_ancestor and is_parent on lists of short-key parts.                  *)
(***************************************************************************)
MaxParts == 3       \* longest list of parts

\* the non-empty part lists over three parts, repeated parts included
PartLists == UNION {[1..n -> {NERA, F, M}] : n \in 1..MaxParts}

InitRelations ==
    /\ call \in {[op |-> "init", a |-> a, b |-> b] : a \in PartLists, b \in PartLists}
    /\ ret = None
    /\ obj = NoObject
    /\ all_dims = <<>>
    /\ keys = <<>>
    /\ combos = <<>>
    /\ possible = <<>>
    /\ pipe = Idle

\* is_ancestor(a, b)
IsAncestor ==
    /\ call.op = "init"
    /\ call' = [call EXCEPT !.op = "is_ancestor"]
    /\ ret' = is_ancestor(call.a, call.b)
    /\ UNCHANGED <<all_dims, keys, combos, possible, pipe, obj>>

\* is_parent(a, b)
IsParent ==
    /\ call.op = "init"
    /\ call' = [call EXCEPT !.op = "is_parent"]
    /\ ret' = is_parent(call.a, call.b)
    /\ UNCHANGED <<all_dims, keys, combos, possible, pipe, obj>>

NextRelations == IsAncestor \/ IsParent

SpecRelations == InitRelations /\ [][NextRelations]_vars

\* the set of parts of a is a proper subset of the set of parts of b
ProperSubsetOfParts(a, b) ==
    /\ \A i \in 1..Len(a) : \E j \in 1..Len(b) : a[i] = b[j]
    /\ \E j \in 1..Len(b) : \A i \in 1..Len(a) : b[j] # a[i]

\* C14: is_ancestor(a, b) is true iff a and b have the same first part and
\* the set of parts of a is a proper subset of that of b; it is true for
\* (["NERA"], ["NERA","F"]) and false for (["NERA","F"], ["NERA"]).
C14_AncestorIffProperSubset ==
    call.op = "is_ancestor" =>
        /\ ret = (call.a[1] = call.b[1] /\ ProperSubsetOfParts(call.a, call.b))
        /\ (call.a = <<NERA>> /\ call.b = <<NERA, F>>) => ret
        /\ (call.a = <<NERA, F>> /\ call.b = <<NERA>>) => ~ret

C14_Witness == call.op = "is_ancestor" /\ call.a = <<NERA>> /\ call.b = <<NERA, F>> /\ ret

\* C15: is_ancestor(a, b) and is_ancestor(b, a) are never both true.
C15_AncestorAsymmetric ==
    call.op = "is_ancestor" => ~ (ret /\ is_ancestor(call.b, call.a))

C15_Witness ==
    call.op = "is_ancestor" /\ ret /\ Len(call.a) > 1 /\ ~ is_ancestor(call.b, call.a)

\* C16: is_parent(a, b) is true exactly when is_ancestor(a, b) is true and b
\* has exactly one part more than a, repeated parts included.
C16_ParentIsAncestorWithOneMorePart ==
    call.op = "is_parent" =>
        /\ ret = (is_ancestor(call.a, call.b) /\ Len(call.b) = Len(call.a) + 1)
        /\ ret => is_ancestor(call.a, call.b)

(***************************************************************************)
(* get_root on a catalogue of short keys.                                  *)
(***************************************************************************)
\* has_ancestor(short_key, all_short_keys)
has_ancestor(short_key, all_short_keys) ==
    Len(get_relations(short_key, all_short_keys, "is_ancestor", FALSE)) > 0

\* get_root(short_key, all_short_keys): the first ancestor without an
\* ancestor, or None
get_root_first_ancestor(short_key, all_short_keys) ==
    LET ancestors == get_relations(short_key, all_short_keys, "is_ancestor", FALSE)
    IN  IF Len(ancestors) > 0 THEN Str(ancestors[1]) ELSE None
get_root(short_key, all_short_keys) ==
    LET roots == SelectSeq(get_relations(short_key, all_short_keys, "is_ancestor", FALSE),
                           LAMBDA ancestor : ~ has_ancestor(ancestor, all_short_keys))
    IN  IF Len(roots) > 0 THEN Str(roots[1]) ELSE None

\* Indicator.get_root()
Indicator_get_root(ks, self) == get_root(self.short_key, ks.short_key)

MaxShortKeys == 3   \* largest number of short keys of a catalogue

RootPool ==
    {<<"n","e","r","a">>, <<"n","e","r","a","-","f">>, <<"n","e","r","a","-","1">>, <<"n","e","r","a","-","1","-","f">>, <<"n","e","r","a","-","1","-","f","-","r","u","r">>, <<"o","f","s","t","-","f">>}

\* Indicator.keys, of which only the short keys are read
InitRoot ==
    /\ keys \in {[short_key |-> ks] : ks \in SeqsNoRep(RootPool, 1, MaxShortKeys)}
    /\ call = [op |-> "init"]
    /\ ret = None
    /\ obj = NoObject
    /\ all_dims = <<>>
    /\ combos = <<>>
    /\ possible = <<>>
    /\ pipe = Idle

\* x.get_root() for an indicator x of the catalogue
GetRoot ==
    /\ call.op = "init"
    /\ \E i \in 1..Len(keys.short_key) :
          /\ call' = [op |-> "get_root", short_key |-> keys.short_key[i]]
          /\ ret' = Indicator_get_root(keys, [short_key |-> keys.short_key[i]])
    /\ UNCHANGED <<all_dims, keys, combos, possible, pipe, obj>>

NextRoot == GetRoot

SpecRoot == InitRoot /\ [][NextRoot]_vars

\* the short keys of the catalogue that are ancestors of x and have no
\* ancestor in the catalogue
RootAncestors(x) ==
    {k \in Range(keys.short_key) :
        /\ is_ancestor(Split(k, HYPHEN), Split(x, HYPHEN))
        /\ \A o \in Range(keys.short_key) : ~ is_ancestor(Split(o, HYPHEN), Split(k, HYPHEN))}

\* C17: when x has more than one ancestor that itself has no ancestor,
\* get_root(x) does not return one of them.
C17_SeveralRootsNotPicked ==
    (call.op = "get_root" /\ Cardinality(RootAncestors(call.short_key)) > 1) =>
        ~ (ret.tag = "str" /\ ret.v \in RootAncestors(call.short_key))

(***************************************************************************)
(* Properties of Filter.dict_to_key and Filter.key_to_dict.                *)
(***************************************************************************)
\* the value map with its dimension names upper-cased, as a set of pairs
UpperCasedItems(d) == {<<Upper(k), d[k]>> : k \in DOMAIN d}

\* two value maps that differ at most in the letter case of their names
SameUpToCase(d1, d2) ==
    /\ UpperCasedItems(d1) = UpperCasedItems(d2)
    /\ Cardinality(DOMAIN d1) = Cardinality(UpperCasedItems(d1))
    /\ Cardinality(DOMAIN d2) = Cardinality(UpperCasedItems(d2))

\* C18: value maps that differ only in the letter case of their dimension
\* names give the same key.
C18_KeyIgnoresNameCase ==
    call.op = "dict_to_key" =>
        \A d2 \in ValueMaps :
            SameUpToCase(call.d, d2) => dict_to_key(all_dims, d2, call.ind) = ret

\* C19: key_to_dict(key, ind) pairs the i-th part of the key with the i-th
\* dimension of dims(ind): all dimensions, REF_AREA and TIME_PERIOD included,
\* when ind is false, the indicator dimensions when ind is true.
C19_KeyToDictZipsDims ==
    call.op = "key_to_dict" =>
        ret = ZipDict(dims(all_dims, call.ind), Split(call.key, DOT))

(***************************************************************************)
(* Filter.dict_to_key on value maps whose values may hold a '.', as the    *)
(* string of a decimal number does.                                        *)
(***************************************************************************)
DECIMAL == <<"1",".","5">>

\* value maps with None, strings, a decimal and a list as values
DottedMaps ==
    PartialMaps({STAT_UNIT, SEX}, {None, Str(F), Str(DECIMAL), List(<<F, M>>)})

\* a caller builds a key from a value map
DictToKeyValues ==
    /\ call.op = "init"
    /\ \E d \in ValueMaps \cup DottedMaps, ind \in BOOLEAN :
          /\ call' = [op |-> "dict_to_key", d |-> d, ind |-> ind]
          /\ ret' = dict_to_key(all_dims, d, ind)
    /\ UNCHANGED <<all_dims, keys, combos, possible, pipe, obj>>

NextFilterValues == DictToKeyValues

SpecFilterValues == InitFilter /\ [][NextFilterValues]_vars

\* the key has one part for each indicator dimension, all of them empty
\* when the value map is empty
OnePartPerIndDim ==
    /\ Len(Split(ret, DOT)) = Len(ind_dims_of(all_dims))
    /\ call.d = <<>> => \A p \in Range(Split(ret, DOT)) : p = <<>>

\* C20 as stated: for every value map the indicator key splits on '.' into
\* exactly len(indicator dimensions) parts, empty ones for the empty map
C20_OnePartPerIndDim ==
    (call.op = "dict_to_key" /\ call.ind) => OnePartPerIndDim

\* no string of the value holds a '.'
DotFree(v) ==
    /\ v.tag = "str" => ~ Contains(v.v, DOT)
    /\ v.tag = "list" => \A i \in 1..Len(v.v) : ~ Contains(v.v[i], DOT)

\* C20 amended: the same for a Filter with at least one indicator dimension
\* and a value map whose values hold no '.'
C20_OnePartPerIndDimDotFree ==
    (/\ call.op = "dict_to_key" /\ call.ind
     /\ Len(ind_dims_of(all_dims)) >= 1
     /\ \A k \in DOMAIN call.d : DotFree(call.d[k]))
    => OnePartPerIndDim

C20_Witness ==
    /\ call.op = "dict_to_key" /\ call.ind
    /\ Len(ind_dims_of(all_dims)) >= 2
    /\ \E k \in DOMAIN call.d : call.d[k].tag = "list"
    /\ \A k \in DOMAIN call.d : DotFree(call.d[k])
    /\ Contains(ret, PLUS)
    /\ OnePartPerIndDim

(***************************************************************************)
(* The rewriting rules of the shortening, on combos that meet every rule.  *)
(***************************************************************************)
\* combos with an unknown level, an EDU_FIELD of _X and a COUNTRY_ORIGIN of
\* PT, the two pairs of dont_remove
AbbreviatePool ==
    {[Combo(p[1], lev, T_, T_) EXCEPT ![EDU_FIELD] = fld, ![COUNTRY_ORIGIN] = p[2]] :
        p \in {<<NERA, W00>>, <<PT, PT>>}, lev \in {L1, U_, T_}, fld \in {T_, X_}}

InitAbbreviate ==
    /\ combos \in SeqsNoRep(AbbreviatePool, 1, MaxCombos)
    /\ possible = PossibleTable
    /\ pipe = NoPipe
    /\ all_dims = <<>>
    /\ keys = <<>>
    /\ call = [op |-> "init"]
    /\ ret = None
    /\ obj = NoObject

NextAbbreviate == DropCommon \/ Abbreviate

SpecAbbreviate == InitAbbreviate /\ [][NextAbbreviate]_vars

\* the value v of dimension k in a combo of stat unit su was dropped as the
\* constant value of k for su
IsDropped(su, k, v) == <<su, k, v>> \in pipe.dropped

\* the number of the first rule that matches value v of dimension k
FirstRule(su, k, v) ==
    IF IsDropped(su, k, v) THEN 1
    ELSE IF v \in Range(remove) /\ <<k, v>> \notin dont_remove THEN 2
    ELSE IF v \in Range(mangle) THEN 3
    ELSE IF k \in DOMAIN replace THEN 4
    ELSE 5

\* what rule n makes of value v of dimension k
RuleResult(n, k, v) ==
    IF n \in {1, 2} THEN <<>>
    ELSE IF n = 3 THEN k \o UNDERSCORE \o v
    ELSE IF n = 4 THEN Replace(v, L, <<>>)
    ELSE v

\* C21: in the shortened combos every value is what the first matching rule
\* alone makes of it, in the order dropped as the stat unit's constant,
\* removed (unless in dont_remove), mangled, replaced, unchanged
C21_FirstMatchingRuleOnly ==
    pipe.pc = "abbreviated" =>
        \A i \in 1..Len(combos) : \A k \in DOMAIN combos[i] :
            pipe.abb_combos[i][k] =
                RuleResult(FirstRule(combos[i][STAT_UNIT], k, combos[i][k]),
                           k, combos[i][k])

\* a shortened list of combos where a level that the mangle rule matches was
\* mangled and not replaced, a dont_remove pair was kept, a constant value
\* was dropped and a level was replaced
C21_Witness ==
    /\ pipe.pc = "abbreviated"
    /\ \E i \in 1..Len(combos) :
          /\ combos[i][EDU_LEVEL] = U_
          /\ pipe.abb_combos[i][EDU_LEVEL] = <<"E","D","U","_","L","E","V","E","L","_","_","U">>
          /\ combos[i][EDU_FIELD] = X_ /\ pipe.abb_combos[i][EDU_FIELD] = X_
          /\ IsDropped(combos[i][STAT_UNIT], GRADE, T_)
          /\ pipe.abb_combos[i][GRADE] = <<>>
    /\ \E i \in 1..Len(combos) :
          /\ combos[i][EDU_LEVEL] = L1
          /\ pipe.abb_combos[i][EDU_LEVEL] = <<"1">>

(***************************************************************************)
(* The two key matches of fuzzy_lookup on lists of tokens and of parts.    *)
(***************************************************************************)
part_rofst == <<"r","o","f","s","t">>
part_rofst_phh == <<"r","o","f","s","t","_","p","h","h">>
part_f == <<"f">>
part_3 == <<"3">>

\* the query tokens and the parts of a short key, up to MaxParts of each,
\* repeated ones included
TokenLists == UNION {[1..n -> {part_rofst, part_f, part_3}] : n \in 0..MaxParts}
KeyPartLists ==
    UNION {[1..n -> {part_rofst, part_rofst_phh, part_f, part_3}] : n \in 0..MaxParts}

InitKeyMatch ==
    /\ call \in {[op |-> "init", a |-> a, b |-> b] : a \in TokenLists, b \in KeyPartLists}
    /\ ret = None
    /\ obj = NoObject
    /\ all_dims = <<>>
    /\ keys = <<>>
    /\ combos = <<>>
    /\ possible = <<>>
    /\ pipe = Idle

\* strict_key_match(search_parts, key_parts)
StrictKeyMatch ==
    /\ call.op = "init"
    /\ call' = [call EXCEPT !.op = "strict_key_match"]
    /\ ret' = strict_key_match(call.a, call.b)
    /\ UNCHANGED <<all_dims, keys, combos, possible, pipe, obj>>

\* loose_key_match(search_parts, key_parts)
LooseKeyMatch ==
    /\ call.op = "init"
    /\ call' = [call EXCEPT !.op = "loose_key_match"]
    /\ ret' = loose_key_match(call.a, call.b)
    /\ UNCHANGED <<all_dims, keys, combos, possible, pipe, obj>>

NextKeyMatch == StrictKeyMatch \/ LooseKeyMatch

SpecKeyMatch == InitKeyMatch /\ [][NextKeyMatch]_vars

\* the tokens can be given pairwise distinct positions of the parts, each
\* token equal to the part at its position
AssignedVerbatim(tokens, key_parts) ==
    \E g \in [1..Len(tokens) -> 1..Len(key_parts)] :
        /\ \A i, j \in 1..Len(tokens) : i # j => g[i] # g[j]
        /\ \A i \in 1..Len(tokens) : tokens[i] = key_parts[g[i]]

Occurrences(seq, x) == Cardinality({i \in 1..Len(seq) : seq[i] = x})

\* C22: strict_key_match(tokens, parts) is true iff the tokens can be
\* assigned to pairwise distinct positions of the parts, each token equal to
\* its part (leftover parts allowed); a token that occurs more often in the
\* query than in the parts, or more tokens than parts, gives false.
C22_StrictIffDistinctPositions ==
    call.op = "strict_key_match" =>
        /\ ret = AssignedVerbatim(call.a, call.b)
        /\ (\E t \in Range(call.a) : Occurrences(call.a, t) > Occurrences(call.b, t))
              => ~ ret
        /\ Len(call.a) > Len(call.b) => ~ ret

\* a match in another order that leaves a part over
C22_Witness ==
    /\ call.op = "strict_key_match"
    /\ call.a = <<part_f, part_rofst>>
    /\ call.b = <<part_rofst, part_3, part_f>>
    /\ ret

(***************************************************************************)
(* The candidates of short_key_to_combo: token order and default filling.  *)
(***************************************************************************)
\* spec_values of the call: the upper-cased tokens after the stat unit
CallTokens ==
    LET key_parts == Split(call.key, HYPHEN)
    IN  Tail([i \in 1..Len(key_parts) |-> Upper(key_parts[i])])

\* the dimensions a candidate gives a single value, in canonical order:
\* those it took from tokens (the others hold a list of defaults)
NamedDims(cand) == SelectSeq(unshorten_dims, LAMBDA x : cand[x].tag = "str")

\* C23: in every candidate the tokens after the stat unit, in their order,
\* stand for dimensions of strictly increasing canonical position, so that
\* no two tokens stand for the same dimension: the i-th dimension with a
\* token value, in canonical order, holds the value of the i-th token
C23_TokensInCanonicalOrder ==
    call.op = "short_key_to_combo" =>
        \A n \in 1..Len(ret) :
            LET named == NamedDims(ret[n])
            IN  /\ Len(named) = Len(CallTokens)
                /\ \A i \in 1..Len(named) :
                      /\ ret[n][named[i]] # None
                      /\ ret[n][named[i]] =
                            value_matches_dim(CallTokens[i], named[i], possible[named[i]])

\* "nera-l1-f" where L1 is a level and a grade: of the assignments
\* (EDU_LEVEL, SEX) and (GRADE, SEX) only the first is in canonical order
C23_Witness ==
    /\ call.op = "short_key_to_combo"
    /\ call.key = <<"n","e","r","a","-","l","1","-","f">>
    /\ call.dropped_dims = {}
    /\ L1 \in Range(possible[GRADE]) /\ L1 \in Range(possible[EDU_LEVEL])
    /\ Len(ret) = 1
    /\ ret[1][EDU_LEVEL] = Str(L1) /\ ret[1][SEX] = Str(F)
    /\ ret[1][GRADE].tag = "set"

\* the stat unit of the call and the values dropped for it
CallStatUnit == Upper(Head(Split(call.key, HYPHEN)))
CallDropped == dropped_dict(CallStatUnit, call.dropped_dims)

\* C24: in every candidate a dimension that no token names holds the value
\* dropped for the stat unit when the drop list has one for the dimension,
\* and otherwise the set of its possible values that are removable
C24_DroppedDefaultFilled ==
    call.op = "short_key_to_combo" =>
        \A n \in 1..Len(ret) : \A x \in Range(unshorten_dims) :
            /\ x \in DOMAIN CallDropped => ret[n][x] = Str(CallDropped[x])
            /\ (x \notin DOMAIN CallDropped /\ ret[n][x].tag = "set") =>
                  ret[n][x] = AnyOf({v \in Range(possible[x]) :
                                        v \in Range(remove) /\ <<x, v>> \notin dont_remove})

(***************************************************************************)
(* The label tier of fuzzy_lookup and the query it compares.               *)
(***************************************************************************)
\* a fuzzy_lookup call that went on to its label tier
LabelTierReached == IsFuzzy /\ call.tier \in {"label", "none"}

\* C25: the label tier compares the cleaned query with the cleaned labels:
\* it finds what it finds for the cleaned form of the query, and the same
\* for every query with the same cleaned form
C25_LabelTierCleansQuery ==
    LabelTierReached =>
        /\ call.found.label = label_match_indices(keys, clean_label(call.s))
        /\ \A q \in Queries :
              clean_label(q) = clean_label(call.s)
                  => label_match_indices(keys, q) = call.found.label

(***************************************************************************)
(* best_matches on a query and a list of cleaned labels.                   *)
(***************************************************************************)
MaxLabels == 3      \* longest list of labels

\* labels of one-letter words: the query words a..f in one piece, in two
\* pieces, in three pieces, reversed, partly, and none of them
LabelPool ==
    {<<"a"," ","b"," ","c"," ","x"," ","d"," ","e"," ","f">>, <<"a"," ","b"," ","c"," ","d"," ","x"," ","f"," ","y"," ","e">>, <<"a"," ","b"," ","c"," ","d"," ","x">>, <<"a"," ","b"," ","x"," ","c"," ","d">>,
     <<"a"," ","b"," ","c"," ","d"," ","e"," ","f"," ","g">>, <<"f"," ","e"," ","d"," ","c"," ","b"," ","a">>, <<"x"," ","y">>}

LabelQueries == {<<"a"," ","b"," ","c"," ","d"," ","e"," ","f">>, <<"a"," ","b"," ","c"," ","d">>, <<"x">>}

InitBestMatches ==
    /\ call \in {[op |-> "init", a |-> a, L |-> labels] :
                    a \in LabelQueries, labels \in SeqsNoRep(LabelPool, 1, MaxLabels)}
    /\ ret = None
    /\ obj = NoObject
    /\ all_dims = <<>>
    /\ keys = <<>>
    /\ combos = <<>>
    /\ possible = <<>>
    /\ pipe = Idle

\* best_matches(a, L)
BestMatches ==
    /\ call.op = "init"
    /\ call' = [call EXCEPT !.op = "best_matches"]
    /\ ret' = best_matches(call.a, call.L)
    /\ UNCHANGED <<all_dims, keys, combos, possible, pipe, obj>>

NextBestMatches == BestMatches

SpecBestMatches == InitBestMatches /\ [][NextBestMatches]_vars

\* the matched spans of label i of the call, as matchingness gives them
Spans(i) == matchingness(Split(call.a, SPACE), Split(call.L[i], SPACE))

\* the number of query words that the spans cover (the fractions of one
\* query have one denominator)
RECURSIVE Covered(_)
Covered(spans) == IF Len(spans) = 0 THEN 0 ELSE Head(spans).num + Covered(Tail(spans))

WordsFound(i) == count_matching_words(Split(call.a, SPACE), Split(call.L[i], SPACE))

\* the labels that best_matches ranks by matchingness: no label holds the
\* whole query, and several labels hold the largest number of its words
RankedBySpans ==
    IF \/ \E i \in 1..Len(call.L) : Contains(call.L[i], call.a)
       \/ \A i \in 1..Len(call.L) : WordsFound(i) = 0
    THEN {}
    ELSE LET best == {i \in 1..Len(call.L) :
                         \A j \in 1..Len(call.L) : WordsFound(j) <= WordsFound(i)}
         IN  IF Cardinality(best) > 1 THEN best ELSE {}

\* C26 as stated: of two ranked labels whose spans cover the same share of
\* the query, the one with more spans is never returned without the one
\* with fewer spans
C26_FewerSpansRankHigher ==
    call.op = "best_matches" =>
        \A i, j \in RankedBySpans :
            (Covered(Spans(i)) = Covered(Spans(j)) /\ Len(Spans(i)) < Len(Spans(j)))
                => ~ (j \in Range(ret) /\ i \notin Range(ret))

\* C26 amended: of two ranked labels whose spans cover the same share of the
\* query, a label matched in several spans is never returned when the other
\* is matched in a single span, and never without a label whose first span
\* is larger
C26_SingleSpanRanksHigher ==
    call.op = "best_matches" =>
        \A i, j \in RankedBySpans :
            (Covered(Spans(i)) = Covered(Spans(j)) /\ Len(Spans(i)) < Len(Spans(j)))
                => /\ Len(Spans(i)) = 1 => j \notin Range(ret)
                   /\ FracGreater(Spans(i)[1], Spans(j)[1])
                         => ~ (j \in Range(ret) /\ i \notin Range(ret))

\* "a b c d x" in one span of four words and "a b x c d" in two spans of
\* two, ranked for the query "a b c d e f": the first alone is returned
C26_Witness ==
    /\ call.op = "best_matches"
    /\ call.a = <<"a"," ","b"," ","c"," ","d"," ","e"," ","f">>
    /\ call.L = <<<<"a"," ","b"," ","x"," ","c"," ","d">>, <<"a"," ","b"," ","c"," ","d"," ","x">>>>
    /\ RankedBySpans = {1, 2}
    /\ Len(Spans(2)) = 1 /\ Len(Spans(1)) = 2
    /\ Covered(Spans(1)) = Covered(Spans(2))
    /\ ret = <<2>>

(***************************************************************************)
(* Indicator.similar and Indicator.match_similar on one indicator.         *)
(***************************************************************************)
\* specs_match(incomplete_spec, indicator), the items of incomplete_spec
\* taken in the order of the dimensions from position i on; the values of a
\* spec made from a key are strings
RECURSIVE specs_match_from(_, _, _, _)
specs_match_from(order, i, incomplete_spec, indicator) ==
    IF i > Len(order) THEN Ok(TRUE)
    ELSE IF order[i] \notin DOMAIN incomplete_spec
    THEN specs_match_from(order, i + 1, incomplete_spec, indicator)
    ELSE IF order[i] \notin DOMAIN indicator THEN Raise("KeyError")
    ELSE IF incomplete_spec[order[i]] \notin {<<>>, indicator[order[i]]} THEN Ok(FALSE)
    ELSE specs_match_from(order, i + 1, incomplete_spec, indicator)

\* a match of every item but those of the first dimension of the spec
specs_match_but_first(incomplete_spec, indicator) ==
    specs_match_from(dims(UIS_DIMENSIONS, TRUE), 2, incomplete_spec, indicator)
specs_match(incomplete_spec, indicator) ==
    specs_match_from(dims(UIS_DIMENSIONS, TRUE), 1, incomplete_spec, indicator)

\* Indicator.match_spec(spec): the indicators of the catalogue that fit the
\* spec, in the order of the catalogue, or the first error
match_spec(ks, spec) ==
    LET outcome(i) ==
            LET fits == specs_match(spec, key_to_dict(UIS_DIMENSIONS, ks.key[i], TRUE))
            IN  IF fits.tag = "raise" THEN fits
                ELSE IF ~ fits.v THEN None
                ELSE Indicator(ks, None, Str(ks.key[i]), None)
        outcomes == [i \in 1..Len(ks.key) |-> outcome(i)]
    IN  IF \E i \in 1..Len(outcomes) : outcomes[i].tag = "raise"
        THEN outcomes[CHOOSE i \in 1..Len(outcomes) :
                        /\ outcomes[i].tag = "raise"
                        /\ \A j \in 1..(i - 1) : outcomes[j].tag # "raise"]
        ELSE LET found == SelectSeq(outcomes, LAMBDA x : x.tag = "ok")
             IN  Ok([i \in 1..Len(found) |-> found[i].v])

\* Indicator.similar(ignore) of the indicator self
similar(ks, self, ignore) ==
    LET ign == [i \in 1..Len(ignore) |-> Upper(ignore[i])]
        self_spec == key_to_dict(UIS_DIMENSIONS, self.key, TRUE)
        spec == [k \in DOMAIN self_spec \ Range(ign) |-> self_spec[k]]
        matched == match_spec(ks, spec)
    IN  IF \E i \in 1..Len(ign) : ~ is_dim(UIS_DIMENSIONS, ign[i], TRUE)
        THEN Raise("ValueError")
        ELSE IF matched.tag = "raise" THEN matched
        ELSE Ok(SelectSeq(matched.v, LAMBDA x : x.key # self.key))

\* the lists of dimensions to ignore: valid ones in either case, repeated
\* ones, none, and one that is no dimension of the indicator key
IgnoreLists ==
    {<<>>, <<sex>>, <<SEX>>, <<LOCATION, sex, SEX>>, <<EDU_LEVEL, WEALTH_QUINTILE>>,
     <<REF_AREA>>}

\* ind.similar(ignore) for an indicator ind of the catalogue
Similar ==
    /\ call.op = "init"
    /\ \E i \in 1..Len(keys.key), ignore \in IgnoreLists :
          /\ call' = [op |-> "similar", ind |-> IndicatorAt(keys, i), ignore |-> ignore]
          /\ ret' = similar(keys, IndicatorAt(keys, i), ignore)
    /\ UNCHANGED <<all_dims, keys, combos, possible, pipe, obj>>

\* Indicator.match_similar([ind], ignore) for an indicator ind of the catalogue
MatchSimilar ==
    /\ call.op = "init"
    /\ \E i \in 1..Len(keys.key), ignore \in IgnoreLists :
          /\ call' = [op |-> "match_similar", ind |-> IndicatorAt(keys, i),
                      ignore |-> ignore]
          /\ ret' = match_similar(keys, {IndicatorAt(keys, i)}, ignore)
    /\ UNCHANGED <<all_dims, keys, combos, possible, pipe, obj>>

NextSimilar == Similar \/ MatchSimilar

SpecSimilar == InitLookup /\ [][NextSimilar]_vars

\* every dimension of the call's ignore list is an indicator dimension
ValidIgnore == \A i \in 1..Len(call.ignore) : is_dim(UIS_DIMENSIONS, call.ignore[i], TRUE)

MaxInvocations == 10    \* most invocations of the wrapped function
MaxReads == 10          \* most reads between two deletes

\* Test.__init__: self._x = 10
Test == ("_x" :> 10)

\* Test.x, the wrapped function: self._x += 10; return self._x
Test_x(self) ==
    LET after == [self EXCEPT !["_x"] = @ + 10]
    IN  [self |-> after, value |-> after["_x"]]

\* cached_property.__get__(obj, cls) for the property x of an object:
\* value = obj.__dict__["x"] = self.func(obj)
cached_property_get_without_store(o) ==
    LET made == Test_x(o)
    IN  [obj |-> made.self, value |-> made.value]
cached_property_get(o) ==
    LET made == Test_x(o)
    IN  [obj |-> [k \in DOMAIN made.self \cup {"x"} |->
                     IF k = "x" THEN made.value ELSE made.self[k]],
         value |-> made.value]

\* the attribute read o.x: the entry of the object's __dict__ when it has
\* one, else the class's descriptor (cached_property has no __set__, so the
\* __dict__ comes first)
read_x(o) ==
    IF "x" \in DOMAIN o THEN [obj |-> o, value |-> o["x"]]
    ELSE cached_property_get(o)

\* del o.x: removes the entry of the __dict__; without one it is an
\* AttributeError (cached_property has no __delete__)
delete_x(o) ==
    IF "x" \in DOMAIN o
    THEN [obj |-> [k \in DOMAIN o \ {"x"} |-> o[k]], result |-> None]
    ELSE [obj |-> o, result |-> Raise("AttributeError")]

\* t = Test(); call.reads counts the reads of t.x since t was made or t.x
\* was last deleted
InitCached ==
    /\ obj = Test
    /\ call = [op |-> "init", reads |-> 0]
    /\ ret = None
    /\ all_dims = <<>>
    /\ keys = <<>>
    /\ combos = <<>>
    /\ possible = <<>>
    /\ pipe = Idle

\* t.x
Read ==
    /\ call.reads < MaxReads
    /\ "x" \notin DOMAIN obj => obj["_x"] < 10 + 10 * MaxInvocations
    /\ obj' = read_x(obj).obj
    /\ ret' = Ok(read_x(obj).value)
    /\ call' = [op |-> "read", reads |-> call.reads + 1]
    /\ UNCHANGED <<all_dims, keys, combos, possible, pipe>>

\* del t.x
Delete ==
    /\ obj' = delete_x(obj).obj
    /\ ret' = delete_x(obj).result
    /\ call' = [op |-> "delete",
                reads |-> IF delete_x(obj).result = None THEN 0 ELSE call.reads]
    /\ UNCHANGED <<all_dims, keys, combos, possible, pipe>>

NextCached == Read \/ Delete

SpecCached == InitCached /\ [][NextCached]_vars

\* the step invoked the wrapped function: Test.x adds 10 to _x
Invoked == obj'["_x"] # obj["_x"]

\* C28: in every sequence of reads and deletes of t.x the wrapped function
\* is invoked on the first read and on the first read after each delete, and
\* on no other read; every other read returns the stored value
C28_InvokedOnFirstReadOnly ==
    [][call'.op = "read" =>
          /\ call.reads = 0 => (Invoked /\ ret' = Ok(obj'["_x"]))
          /\ call.reads > 0 => (~ Invoked /\ ret' = ret /\ ret' = Ok(obj["x"]))]_vars

\* the second read after a delete: the function was invoked twice in all
C28_Witness ==
    /\ call.op = "read" /\ call.reads = 2
    /\ obj["_x"] = 30
    /\ ret = Ok(30)

\* C29: for all token lists and part lists strict_key_match(tokens, parts)
\* implies loose_key_match(tokens, parts), so that the keys the loose tier
\* matches include those the strict tier matches
C29_StrictImpliesLoose ==
    /\ (call.op = "strict_key_match" /\ ret) => loose_key_match(call.a, call.b)
    /\ (call.op = "loose_key_match" /\ ~ ret) => ~ strict_key_match(call.a, call.b)

\* a strict match in another order than the key's, which is a loose match too
C29_Witness ==
    /\ call.op = "strict_key_match"
    /\ call.a = <<part_3, part_rofst>>
    /\ call.b = <<part_rofst, part_f, part_3>>
    /\ ret
    /\ loose_key_match(call.a, call.b)

\* the same for the tiers of fuzzy_lookup on a catalogue
StrictTierWithinLooseTier ==
    call.op = "fuzzy_lookup" => call.found.strict \subseteq call.found.loose

(***************************************************************************)
(* What get_root returns.                                                  *)
(***************************************************************************)
\* the short keys of the catalogue that are ancestors of x
CatalogueAncestors(x) ==
    {k \in Range(keys.short_key) : is_ancestor(Split(k, HYPHEN), Split(x, HYPHEN))}

\* C30: get_root(x, all_short_keys) returns None exactly when no short key
\* of the catalogue is an ancestor of x (a root has no root, not itself);
\* otherwise it returns a short key of the catalogue that is an ancestor of
\* x and has no ancestor in the catalogue
C30_RootIsAncestorWithoutAncestor ==
    call.op = "get_root" =>
        /\ (ret = None) <=> (CatalogueAncestors(call.short_key) = {})
        /\ ret # None =>
              /\ ret.tag = "str"
              /\ ret.v # call.short_key
              /\ ret.v \in CatalogueAncestors(call.short_key)
              /\ CatalogueAncestors(ret.v) = {}

\* the catalogue lists the parent nera-1 before the root nera: the root of
\* nera-1-f is nera
C30_Witness ==
    /\ call.op = "get_root"
    /\ keys.short_key = <<<<"n","e","r","a","-","1">>, <<"n","e","r","a">>, <<"n","e","r","a","-","1","-","f">>>>
    /\ call.short_key = <<"n","e","r","a","-","1","-","f">>
    /\ ret = Str(<<"n","e","r","a">>)

====
